---- MODULE Spec2Model ----
(***************************************************************************)
(* Model of the detect-then-recognize pipelines of the vehicle             *)
(* registration system:                                                    *)
(*   - "service": PlateDetectionServicer.DetectPlate / _perform_detection  *)
(*                (src/detect/plate_detection_service.py)                  *)
(*   - "script" : platef.main (src/detect/platef.py)                       *)
(*   - "cin"    : CinExtractionServicer.ExtractCinData                     *)
(*                (src/cin/cin_extraction_service.py)                      *)
(*                                                                         *)
(* Conventions.  Confidences are integers in hundredths (0.53 is 53); a    *)
(* mean is kept as an exact fraction [n, d].  A Python str that the code   *)
(* inspects or assembles is a sequence of one-character strings; None is   *)
(* the one-element sequence <<"None">>, which no text can equal.  A frame  *)
(* or crop is its shape [h, w]; pixel contents are not modelled.  Box      *)
(* coordinates produced by the detectors are integers.  Arithmetic is      *)
(* exact (no floating-point rounding error).                               *)
(***************************************************************************)
EXTENDS Integers, Sequences, FiniteSets, TLC

VARIABLES
    variant,                \* which pipeline runs this invocation
    servicer,               \* state set once by the servicer's __init__
    pc,                     \* position of the invocation in its pipeline
    image_bgr,              \* decoded frame (NoImage when decoding failed)
    output_dets_car,        \* stage-1 detector output rows
    best_plate_detection,   \* stage-1 selected box (script) / box of best crop
    best_plate_crop,        \* stage-1 selected crop (None = NoImage)
    max_confidence_stage1,  \* confidence of the selected stage-1 detection
    corrected_plate_crop,   \* crop after rotation correction
    rotated,                \* TRUE when the corrector applied a rotation
    output_dets_plate,      \* stage-2 detector output rows (with labels)
    overall_confidence,     \* mean of the two stage confidences
    sorted_detections,      \* retained stage-2 detections, left to right
    ocr_i,                  \* index of the next detection of the OCR loop
    detections,             \* cin: detections above threshold
    extracted_texts,        \* cin: field name -> text
    ocr_confidences,        \* cin: field name -> mean token confidence
    cin_ocr_result_list,    \* cin: what the last readtext call returned
    result,                 \* value returned by the pipeline body
    response,               \* structured response handed to the transport
    stages,                 \* history: steps executed by this invocation
    raised,                 \* history: exceptions raised, with their fate
    parked,                 \* worker pool: the invocations that are not stepping
    call                    \* geometry functions on their own: arguments and outcome

vars == <<variant, servicer, pc, image_bgr, output_dets_car, best_plate_detection,
          best_plate_crop, max_confidence_stage1, corrected_plate_crop,
          rotated, output_dets_plate, overall_confidence, sorted_detections,
          ocr_i, detections,
          extracted_texts, ocr_confidences, cin_ocr_result_list, result, response, stages,
          raised, parked, call>>

----------------------------------------------------------------------------
(* Bounds of the model *)

MaxDets1 == 2      \* rows in a stage-1 detector output
MaxDets2 == 3      \* rows in a stage-2 detector output
MaxDetsCin == 2    \* rows in the document detector output

----------------------------------------------------------------------------
(* Program constants *)

CAR_INPUT_HEIGHT == 640
CAR_INPUT_WIDTH == 640
CAR_CONFIDENCE_THRESHOLD == 53
PLATE_CONFIDENCE_THRESHOLD == 54
PLATE_TARGET_HEIGHT == 640
PLATE_TARGET_WIDTH == 640
OCR_MARGIN == 2

----------------------------------------------------------------------------
(* Python arithmetic *)

Range(s) == {s[i] : i \in 1..Len(s)}

Max(a, b) == IF a >= b THEN a ELSE b
Min(a, b) == IF a <= b THEN a ELSE b

\* int(a / b) for b > 0: truncation toward zero
TruncDiv(a, b) == IF a >= 0 THEN a \div b ELSE -((-a) \div b)

\* int(round(a / b)) for a >= 0, b > 0: round half to even
RoundDiv(a, b) ==
    LET q == a \div b
        r == a % b
    IN  IF 2 * r < b THEN q
        ELSE IF 2 * r > b THEN q + 1
        ELSE IF q % 2 = 0 THEN q ELSE q + 1

\* exact fractions n/d with d > 0
Frac(n, d) == [n |-> n, d |-> d]
FracEq(a, b) == a.n * b.d = b.n * a.d
FracLeq(a, b) == a.n * b.d <= b.n * a.d

\* scale = min(target_h / h, target_w / w), as a fraction
MinScale(target_h, target_w, h, w) ==
    IF target_h * w <= target_w * h THEN Frac(target_h, h) ELSE Frac(target_w, w)

----------------------------------------------------------------------------
(* Python strings *)

None == <<"None">>
Truthy(s) == s # None /\ Len(s) > 0

RECURSIVE Join(_)
Join(parts) == IF parts = <<>> THEN <<>> ELSE Head(parts) \o Join(Tail(parts))

RECURSIVE LStrip(_)
LStrip(s) == IF s # <<>> /\ Head(s) = " " THEN LStrip(Tail(s)) ELSE s

RECURSIVE RStrip(_)
RStrip(s) ==
    IF s # <<>> /\ s[Len(s)] = " " THEN RStrip(SubSeq(s, 1, Len(s) - 1)) ELSE s

Strip(s) == RStrip(LStrip(s))

\* s.replace(" ", "")
RemoveSpaces(s) == SelectSeq(s, LAMBDA c : c # " ")

\* sub in s
Contains(s, sub) ==
    \E i \in 1..(Len(s) - Len(sub) + 1) : SubSeq(s, i, i + Len(sub) - 1) = sub

PrefixOCR == <<"[", "O", "C", "R">>
PrefixOCR_ == <<"[", "O", "C", "R", "_">>
PrefixNO == <<"[", "N", "O">>
StrError == <<"E", "r", "r", "o", "r">>
OCR_CROP_FAIL == <<"[", "O", "C", "R", "_", "C", "R", "O", "P", "_", "F", "A", "I", "L", "]">>
OCR_ERROR == <<"[", "O", "C", "R", "_", "E", "R", "R", "O", "R", "]">>
NO_DIGITS == <<"[", "N", "O", "_", "D", "I", "G", "I", "T", "S", "]">>
NA == <<"[", "N", "/", "A", "]">>
StrTN == <<" ", "T", "N", " ">>
\* variant: the num-tun branch writes the label of the three-part layout
StrRS_TN == <<"T", "N", " ">>
StrRS == <<"R", "S", " ">>
StrOcrIncomplete == <<"O", "C", "R", " ", "I", "n", "c", "o", "m", "p", "l", "e", "t", "e", ":", " ">>
StrRsOcrError == <<"R", "S", " ", "O", "C", "R", " ", "E", "r", "r", "o", "r", ":", " ">>
StrPatternError == <<"P", "a", "t", "t", "e", "r", "n", " ", "E", "r", "r", "o", "r">>

\* a or b
Or(a, b) == IF Truthy(a) THEN a ELSE b

\* A diagnostic message: its fixed text and the values formatted into it.
Msg(fmt, args) == [fmt |-> fmt, args |-> args]
NoneMsg == Msg("None", <<>>)
EmptyMsg == Msg("", <<>>)

----------------------------------------------------------------------------
(* Frames, crops and detector rows *)

Image(h, w) == [none |-> FALSE, h |-> h, w |-> w]
NoImage == [none |-> TRUE, h |-> 0, w |-> 0]

\* image[y1:y2, x1:x2] as the region it views
Crop(x1, y1, x2, y2) == [none |-> FALSE, x1 |-> x1, y1 |-> y1, x2 |-> x2, y2 |-> y2]
NoCrop == [none |-> TRUE, x1 |-> 0, y1 |-> 0, x2 |-> 0, y2 |-> 0]
CropH(c) == c.y2 - c.y1
CropW(c) == c.x2 - c.x1
CropSize(c) == IF c.none THEN 0 ELSE Max(0, CropH(c)) * Max(0, CropW(c))

\* a row [x_min, y_min, x_max, y_max, confidence] (with its label in stage 2)
Det(box, conf, label) == [box |-> box, conf |-> conf, label |-> label]

\* all sequences over S of length at most n
SeqsUpTo(S, n) == UNION {[1..k -> S] : k \in 0..n}

----------------------------------------------------------------------------
(* Plate service: ImageNormalizer and CoordinateMapper *)

preprocess_image_car(image, target_height, target_width) ==
    LET scale == MinScale(target_height, target_width, image.h, image.w)
        new_height == RoundDiv(image.h * scale.n, scale.d)
        new_width == RoundDiv(image.w * scale.n, scale.d)
    IN  [original_height |-> image.h, original_width |-> image.w,
         scale |-> scale, new_height |-> new_height, new_width |-> new_width,
         pad_top |-> (target_height - new_height) \div 2,
         pad_left |-> (target_width - new_width) \div 2]

\* cv2.resize rejects an empty destination size
ResizeRaises(new_w, new_h) == new_w <= 0 \/ new_h <= 0

scale_coords_car(box_raw, scaling_meta) ==
    LET scale == scaling_meta.scale
        x_min == TruncDiv((box_raw[1] - scaling_meta.pad_left) * scale.d, scale.n)
        y_min == TruncDiv((box_raw[2] - scaling_meta.pad_top) * scale.d, scale.n)
        x_max == TruncDiv((box_raw[3] - scaling_meta.pad_left) * scale.d, scale.n)
        y_max == TruncDiv((box_raw[4] - scaling_meta.pad_top) * scale.d, scale.n)
    IN  IF scale.n = 0 THEN <<0, 0, 0, 0>>
        ELSE <<Max(0, x_min), Max(0, y_min),
               Min(scaling_meta.original_width, x_max),
               Min(scaling_meta.original_height, y_max)>>

\* variant: the stage-2 context is the stage-1 context of a 1920x1080 frame
preprocess_image_plate_OfFrame(crop, target_h, target_w) ==
    LET m == preprocess_image_car(Image(1080, 1920), target_h, target_w)
    IN  [original_h |-> m.original_height, original_w |-> m.original_width,
         scale |-> m.scale, new_h |-> m.new_height, new_w |-> m.new_width,
         top_pad |-> m.pad_top, left_pad |-> m.pad_left]

preprocess_image_plate(crop, target_h, target_w) ==
    LET scale == MinScale(target_h, target_w, CropH(crop), CropW(crop))
        new_h == TruncDiv(CropH(crop) * scale.n, scale.d)
        new_w == TruncDiv(CropW(crop) * scale.n, scale.d)
    IN  [original_h |-> CropH(crop), original_w |-> CropW(crop),
         scale |-> scale, new_h |-> new_h, new_w |-> new_w,
         top_pad |-> (target_h - new_h) \div 2,
         left_pad |-> (target_w - new_w) \div 2]

scale_coords_plate(coords_padded, scaling_meta) ==
    LET scale == scaling_meta.scale
        orig_x_min == TruncDiv((coords_padded[1] - scaling_meta.left_pad) * scale.d, scale.n)
        orig_y_min == TruncDiv((coords_padded[2] - scaling_meta.top_pad) * scale.d, scale.n)
        orig_x_max == TruncDiv((coords_padded[3] - scaling_meta.left_pad) * scale.d, scale.n)
        orig_y_max == TruncDiv((coords_padded[4] - scaling_meta.top_pad) * scale.d, scale.n)
    IN  IF scale.n = 0 THEN <<0, 0, 0, 0>>
        ELSE <<Max(0, orig_x_min), Max(0, orig_y_min),
               Min(scaling_meta.original_w, orig_x_max),
               Min(scaling_meta.original_h, orig_y_max)>>

----------------------------------------------------------------------------
(* Plate service: DetectionFilter *)

\* stage-1 confidence test of the service
PassesCarThreshold(confidence) == confidence > CAR_CONFIDENCE_THRESHOLD

\* validity test on a mapped box
ValidBox(b) == b[3] > b[1] /\ b[4] > b[2]

\* variant: a later detection of equal confidence replaces the kept one
Exceeds_OrTies(confidence, max_confidence) == confidence >= max_confidence

\* if confidence > max_confidence_stage1
Exceeds(confidence, max_confidence) == confidence > max_confidence

\* the stage-1 loop: acc is (best_plate_crop, max_confidence_stage1)
RECURSIVE SelectBestCrop(_, _, _, _)
SelectBestCrop(dets, i, scaling_meta_car, acc) ==
    IF i > Len(dets) THEN acc
    ELSE LET confidence == dets[i].conf
             orig == scale_coords_car(dets[i].box, scaling_meta_car)
             plate_crop == Crop(orig[1], orig[2], orig[3], orig[4])
             better == /\ PassesCarThreshold(confidence)
                       /\ ValidBox(orig)
                       /\ CropSize(plate_crop) > 0
                       /\ Exceeds(confidence, acc.conf)
         IN  SelectBestCrop(dets, i + 1, scaling_meta_car,
                 IF better THEN [crop |-> plate_crop, conf |-> confidence] ELSE acc)

\* variant: the invocation goes on without a crop
NoRegion_Never(best) == FALSE

\* if best_plate_crop is None: the NO_REGION test
NoRegion(best) == best.crop.none

\* if not relevant_detections: the NO_FIELDS test
NoFields(relevant_detections) == relevant_detections = <<>>

\* class_map.get(label_index, f"Label_{label_index}")
class_map == (0 :> "num" @@ 1 :> "tun")

\* variant: an unmapped class id resolves to an allowed name
ClassName_UnmappedIsTun(label_index) ==
    IF label_index \in DOMAIN class_map THEN class_map[label_index] ELSE "tun"

ClassName(label_index) ==
    IF label_index \in DOMAIN class_map THEN class_map[label_index]
    ELSE "Label_" \o ToString(label_index)

\* stage-2 confidence test
PassesPlateThreshold(confidence) == confidence >= PLATE_CONFIDENCE_THRESHOLD

\* the stage-2 loop: the retained detections in detector order
RECURSIVE RelevantDetections(_, _, _)
RelevantDetections(dets, i, scaling_meta_plate) ==
    IF i > Len(dets) THEN <<>>
    ELSE LET class_name == ClassName(dets[i].label)
             m == scale_coords_plate(dets[i].box, scaling_meta_plate)
             keep == /\ PassesPlateThreshold(dets[i].conf)
                     /\ class_name \in {"num", "tun"}
                     /\ m[1] < m[3] /\ m[2] < m[4]
             rest == RelevantDetections(dets, i + 1, scaling_meta_plate)
         IN  IF keep
             THEN <<[x1 |-> m[1], y1 |-> m[2], x2 |-> m[3], y2 |-> m[4],
                     class_name |-> class_name, confidence |-> dets[i].conf,
                     ocr_text |-> None]>> \o rest
             ELSE rest

\* sorted(relevant_detections, key=lambda d: d['x1']) (stable)
RECURSIVE InsertByX1(_, _)
InsertByX1(sorted, d) ==
    IF sorted = <<>> THEN <<d>>
    ELSE IF sorted[Len(sorted)].x1 <= d.x1 THEN Append(sorted, d)
    ELSE Append(InsertByX1(SubSeq(sorted, 1, Len(sorted) - 1), d), sorted[Len(sorted)])

RECURSIVE SortedByX1(_)
SortedByX1(dets) ==
    IF dets = <<>> THEN <<>>
    ELSE InsertByX1(SortedByX1(SubSeq(dets, 1, Len(dets) - 1)), dets[Len(dets)])

\* variant: every detection counts with the confidence of the first one
SumConfidence_FirstOnly(dets) ==
    IF dets = <<>> THEN 0 ELSE Head(dets).confidence * Len(dets)

RECURSIVE SumConfidence(_)
SumConfidence(dets) ==
    IF dets = <<>> THEN 0 ELSE Head(dets).confidence + SumConfidence(Tail(dets))

\* variant: the mean over the stage-1 confidence and the stage-2 confidences
\* pooled together
OverallConfidence_Pooled(max_conf1, relevant) ==
    Frac(max_conf1 + SumConfidence(relevant), Len(relevant) + 1)

\* (max_confidence_stage1 + avg_stage2_confidence) / 2
OverallConfidence(max_conf1, relevant) ==
    IF Len(relevant) > 0
    THEN Frac(max_conf1 * Len(relevant) + SumConfidence(relevant), 2 * Len(relevant))
    ELSE Frac(max_conf1, 2)


----------------------------------------------------------------------------
(* Plate service: OCR of one 'num' detection and SequenceAssembler *)

\* margin-expanded OCR region inside the corrected crop
\* variant: the margin is taken off the region instead of added to it
OcrRegion_Shrunk(det, crop) ==
    [y1m |-> Max(0, det.y1 + OCR_MARGIN), y2m |-> Min(CropH(crop), det.y2 - OCR_MARGIN),
     x1m |-> Max(0, det.x1 + OCR_MARGIN), x2m |-> Min(CropW(crop), det.x2 - OCR_MARGIN)]

OcrRegion(det, crop) ==
    [y1m |-> Max(0, det.y1 - OCR_MARGIN), y2m |-> Min(CropH(crop), det.y2 + OCR_MARGIN),
     x1m |-> Max(0, det.x1 - OCR_MARGIN), x2m |-> Min(CropW(crop), det.x2 + OCR_MARGIN)]

OcrCropFails(det, crop) ==
    LET r == OcrRegion(det, crop) IN r.y1m >= r.y2m \/ r.x1m >= r.x2m

\* "".join(ocr_result_list).strip().replace(" ", ""), or the sentinel
OcrText(ocr_result_list) ==
    LET ocr_text == RemoveSpaces(Strip(Join(ocr_result_list)))
    IN  IF Truthy(ocr_text) THEN ocr_text ELSE NO_DIGITS

\* variant: only the '[OCR_' sentinels make a slot invalid
SlotValid_OcrOnly(ocr) == Truthy(ocr) /\ ~Contains(ocr, PrefixOCR_)

\* ocr and '[OCR' not in ocr and '[NO' not in ocr
SlotValid(ocr) ==
    Truthy(ocr) /\ ~Contains(ocr, PrefixOCR) /\ ~Contains(ocr, PrefixNO)

ClassSequence(dets) == [i \in 1..Len(dets) |-> dets[i].class_name]

pattern_num_tun_num == <<"num", "tun", "num">>
pattern_num_tun == <<"num", "tun">>
pattern_tun_num == <<"tun", "num">>

FailedParts(ocr1, ocr2) ==
    (IF ~SlotValid(ocr1) THEN <<"first number">> ELSE <<>>) \o
    (IF ~SlotValid(ocr2) THEN <<"second number">> ELSE <<>>)

Assembly(plate, error_occurred, message) ==
    [final_plate_string |-> plate, error_occurred |-> error_occurred,
     error_message_assembly |-> message]

\* Stage 4 of _perform_detection, up to the final emptiness check
AssembleBranches(dets) ==
    LET detection_sequence == ClassSequence(dets)
    IN  IF detection_sequence = pattern_num_tun_num THEN
            IF Len(dets) = 3 THEN
                LET ocr1 == dets[1].ocr_text
                    ocr2 == dets[3].ocr_text
                IN  IF SlotValid(ocr1) /\ SlotValid(ocr2)
                    THEN Assembly(ocr1 \o StrTN \o ocr2, FALSE, EmptyMsg)
                    ELSE Assembly(StrOcrIncomplete \o Or(ocr1, NA) \o StrTN \o Or(ocr2, NA),
                                  TRUE, Msg("OCR failed on {}", <<FailedParts(ocr1, ocr2)>>))
            ELSE Assembly(<<>>, TRUE,
                          Msg("Detection count mismatch for num-tun-num pattern", <<>>))
        ELSE IF detection_sequence = pattern_num_tun THEN
            IF Len(dets) = 2 THEN
                LET ocr_num == dets[1].ocr_text
                IN  IF SlotValid(ocr_num)
                    THEN Assembly(StrRS \o ocr_num, FALSE, EmptyMsg)
                    ELSE Assembly(StrRsOcrError \o Or(ocr_num, NA), TRUE,
                                  Msg("OCR failed on number part for RS-style plate", <<>>))
            ELSE Assembly(<<>>, TRUE,
                          Msg("Detection count mismatch for num-tun pattern", <<>>))
        ELSE IF detection_sequence = pattern_tun_num THEN
            IF Len(dets) = 2 THEN
                LET ocr_num == dets[2].ocr_text
                IN  IF SlotValid(ocr_num)
                    THEN Assembly(StrRS \o ocr_num, FALSE, EmptyMsg)
                    ELSE Assembly(StrRsOcrError \o Or(ocr_num, NA), TRUE,
                                  Msg("OCR failed on number part for RS-style plate", <<>>))
            ELSE Assembly(<<>>, TRUE,
                          Msg("Detection count mismatch for tun-num pattern", <<>>))
        ELSE Assembly(StrPatternError, TRUE,
                      Msg("Unrecognized plate pattern: {}", <<detection_sequence>>))

\* variant: an empty list ends in the final emptiness check
Assemble_EmptyUnassembled(dets) ==
    IF dets = <<>>
    THEN Assembly(<<>>, TRUE, Msg("Failed to assemble plate string", <<>>))
    ELSE AssembleBranches(dets)

\* Stage 4 of _perform_detection
Assemble(dets) ==
    LET a == AssembleBranches(dets)
    IN  IF a.final_plate_string = <<>> /\ ~a.error_occurred
        THEN Assembly(a.final_plate_string, TRUE, Msg("Failed to assemble plate string", <<>>))
        ELSE a

\* (plate_number, confidence, error_message) returned by _perform_detection
Result(plate, confidence, message) ==
    [plate |-> plate, confidence |-> confidence, error_message |-> message]
NoResult == Result(<<>>, Frac(0, 1), NoneMsg)

\* the handler of _perform_detection
InternalError(type) ==
    Result(<<>>, Frac(0, 1), Msg("Internal server error during detection: {}", <<<<type>>>>))

\* PlateResponse built by DetectPlate
PlateResponse(r) ==
    [success |-> r.error_message = NoneMsg /\ Truthy(r.plate) /\ ~Contains(r.plate, StrError),
     plate_number |-> r.plate,
     confidence |-> r.confidence,
     error_message |-> IF r.error_message = NoneMsg THEN EmptyMsg ELSE r.error_message]
NoResponse == [success |-> FALSE, plate_number |-> <<>>, confidence |-> Frac(0, 1),
               error_message |-> NoneMsg]

----------------------------------------------------------------------------
(* Script platef.py: normalizer, mapper, filter, assembler *)

platef_preprocess_image_car(image, target_height, target_width) ==
    LET scale == MinScale(target_height, target_width, image.h, image.w)
    IN  [original_height |-> image.h, original_width |-> image.w, scale |-> scale,
         new_height |-> TruncDiv(image.h * scale.n, scale.d),
         new_width |-> TruncDiv(image.w * scale.n, scale.d),
         pad_top |-> 0, pad_left |-> 0]

\* the inline stage-1 mapping of main
platef_map_car(box_raw, scaling_meta) ==
    LET scale == scaling_meta.scale
    IN  <<Max(0, TruncDiv((box_raw[1] - scaling_meta.pad_left) * scale.d, scale.n)),
          Max(0, TruncDiv((box_raw[2] - scaling_meta.pad_top) * scale.d, scale.n)),
          Min(scaling_meta.original_width,
              TruncDiv((box_raw[3] - scaling_meta.pad_left) * scale.d, scale.n)),
          Min(scaling_meta.original_height,
              TruncDiv((box_raw[4] - scaling_meta.pad_top) * scale.d, scale.n))>>

platef_PassesCarThreshold(score) == score >= CAR_CONFIDENCE_THRESHOLD

\* the stage-1 loop of main: acc is (best_plate_detection, best_confidence)
RECURSIVE platef_SelectBest(_, _, _, _)
platef_SelectBest(dets, i, scaling_meta, acc) ==
    IF i > Len(dets) THEN acc
    ELSE LET score == dets[i].conf
             better == platef_PassesCarThreshold(score) /\ score > acc.conf
         IN  platef_SelectBest(dets, i + 1, scaling_meta,
                 IF better
                 THEN [found |-> TRUE, box |-> platef_map_car(dets[i].box, scaling_meta),
                       conf |-> score]
                 ELSE acc)

\* max(0, min(v, hi)) then int()
Clamp(v, hi) == Max(0, Min(v, hi))

platef_scale_coords(coords, scaling_meta) ==
    LET scale == scaling_meta.scale
    IN  IF scale.n = 0 THEN <<0, 0, 0, 0>>
        ELSE <<Clamp(TruncDiv((coords[1] - scaling_meta.left_pad) * scale.d, scale.n),
                     scaling_meta.original_w),
               Clamp(TruncDiv((coords[2] - scaling_meta.top_pad) * scale.d, scale.n),
                     scaling_meta.original_h),
               Clamp(TruncDiv((coords[3] - scaling_meta.left_pad) * scale.d, scale.n),
                     scaling_meta.original_w),
               Clamp(TruncDiv((coords[4] - scaling_meta.top_pad) * scale.d, scale.n),
                     scaling_meta.original_h)>>

RECURSIVE platef_RelevantDetections(_, _, _)
platef_RelevantDetections(dets, i, scaling_meta) ==
    IF i > Len(dets) THEN <<>>
    ELSE LET class_name == ClassName(dets[i].label)
             m == platef_scale_coords(dets[i].box, scaling_meta)
             keep == /\ dets[i].conf >= PLATE_CONFIDENCE_THRESHOLD
                     /\ class_name \in {"num", "tun"}
                     /\ ~(m[1] >= m[3] \/ m[2] >= m[4])
             rest == platef_RelevantDetections(dets, i + 1, scaling_meta)
         IN  IF keep
             THEN <<[x1 |-> m[1], y1 |-> m[2], x2 |-> m[3], y2 |-> m[4],
                     class_name |-> class_name, confidence |-> dets[i].conf,
                     ocr_text |-> None]>> \o rest
             ELSE rest

\* "".join(ocr_result_list).strip(), or the sentinel
platef_OcrText(ocr_result_list) ==
    LET ocr_text == Strip(Join(ocr_result_list))
    IN  IF Truthy(ocr_text) THEN ocr_text ELSE NO_DIGITS

\* text and '[OCR_' not in text
platef_SlotValid(text) == Truthy(text) /\ ~Contains(text, PrefixOCR_)

\* str(list of str): ['num', 'tun']
RECURSIVE ReprItems(_)
ReprItems(names) ==
    IF names = <<>> THEN <<>>
    ELSE <<"'", Head(names), "'">> \o
         (IF Tail(names) = <<>> THEN <<>> ELSE <<",", " ">> \o ReprItems(Tail(names)))
Repr(names) == <<"[">> \o ReprItems(names) \o <<"]">>

StrOcrFailed == <<"O", "C", "R", " ", "F", "a", "i", "l", "e", "d", ":", " ">>
StrUnmatched == <<"U", "n", "m", "a", "t", "c", "h", "e", "d", " ", "S", "e", "q", "u", "e", "n", "c", "e", ":", " ">>
StrNoValidPattern == <<"No valid plate pattern detected">>

\* the final_ocr_string of main
platef_FinalOcrString(dets) ==
    LET detection_sequence == ClassSequence(dets)
    IN  IF Len(dets) = 3 /\ detection_sequence = pattern_num_tun_num THEN
            IF /\ Truthy(dets[1].ocr_text) /\ Truthy(dets[3].ocr_text)
               /\ ~Contains(dets[1].ocr_text, PrefixOCR_)
               /\ ~Contains(dets[3].ocr_text, PrefixOCR_)
            THEN dets[1].ocr_text \o StrTN \o dets[3].ocr_text
            ELSE StrOcrFailed \o dets[1].ocr_text \o StrTN \o dets[3].ocr_text
        ELSE IF Len(dets) = 2 THEN
            IF detection_sequence \in {pattern_tun_num, pattern_num_tun} THEN
                LET num_det == IF detection_sequence = pattern_tun_num THEN dets[2] ELSE dets[1]
                IN  IF platef_SlotValid(num_det.ocr_text)
                    THEN StrRS \o num_det.ocr_text
                    ELSE StrOcrFailed \o StrRS \o num_det.ocr_text
            ELSE StrUnmatched \o Repr(detection_sequence)
        ELSE StrNoValidPattern

----------------------------------------------------------------------------
(* Document service cin_extraction_service.py: normalizer, mapper, filter, *)
(* per-field OCR aggregation, response                                     *)

CONFIDENCE_THRESHOLD == 54
INPUT_HEIGHT == 640
INPUT_WIDTH == 640

cin_label_map == (0 :> "id" @@ 1 :> "name" @@ 2 :> "lastname")
NoLabels == [k \in {} |-> ""]
CinLabels == {0, 1, 2, 7}

\* self.class_id_to_name.get(label_id, f"unknown_id_{label_id}")
CinClassName(class_id_to_name, label_id) ==
    IF label_id \in DOMAIN class_id_to_name THEN class_id_to_name[label_id]
    ELSE "unknown_id_" \o ToString(label_id)

CinNames == {CinClassName(m, l) : m \in {cin_label_map, NoLabels}, l \in CinLabels}

_preprocess_image(image, target_height, target_width) ==
    LET scale == MinScale(target_height, target_width, image.h, image.w)
        new_h == TruncDiv(image.h * scale.n, scale.d)
        new_w == TruncDiv(image.w * scale.n, scale.d)
    IN  [orig_h |-> image.h, orig_w |-> image.w, scale |-> scale,
         new_h |-> new_h, new_w |-> new_w,
         pad_top |-> (target_height - new_h) \div 2,
         pad_left |-> (target_width - new_w) \div 2]

\* box_orig: the inline mapping of ExtractCinData
cin_box_orig(box, meta) ==
    <<Max(0, TruncDiv((box[1] - meta.pad_left) * meta.scale.d, meta.scale.n)),
      Max(0, TruncDiv((box[2] - meta.pad_top) * meta.scale.d, meta.scale.n)),
      Min(meta.orig_w, TruncDiv((box[3] - meta.pad_left) * meta.scale.d, meta.scale.n)),
      Min(meta.orig_h, TruncDiv((box[4] - meta.pad_top) * meta.scale.d, meta.scale.n))>>

cin_PassesThreshold(confidence) == confidence >= CONFIDENCE_THRESHOLD

\* the detection loop of ExtractCinData
RECURSIVE cin_Detections(_, _, _, _)
cin_Detections(rows, i, meta, class_id_to_name) ==
    IF i > Len(rows) THEN <<>>
    ELSE LET rest == cin_Detections(rows, i + 1, meta, class_id_to_name)
         IN  IF cin_PassesThreshold(rows[i].conf)
             THEN <<[class_name |-> CinClassName(class_id_to_name, rows[i].label),
                     label_id |-> rows[i].label,
                     confidence |-> rows[i].conf,
                     box_orig |-> cin_box_orig(rows[i].box, meta)]>> \o rest
             ELSE rest

\* one (bbox, text, confidence) triple of readtext(detail=1)
Token(text, conf) == [text |-> text, conf |-> conf]

\* current_field_text after the token loop, stripped
RECURSIVE cin_FieldText(_)
cin_FieldText(tokens) ==
    IF tokens = <<>> THEN <<>> ELSE Head(tokens).text \o <<" ">> \o cin_FieldText(Tail(tokens))

\* variant: the confidence of the first token stands for all of them
cin_ConfidenceSum_FirstOnly(tokens) ==
    IF tokens = <<>> THEN 0 ELSE Head(tokens).conf * Len(tokens)

RECURSIVE cin_ConfidenceSum(_)
cin_ConfidenceSum(tokens) ==
    IF tokens = <<>> THEN 0 ELSE Head(tokens).conf + cin_ConfidenceSum(Tail(tokens))

\* str value of a dict entry, "" when the key is absent
Get(texts, key) == IF key \in DOMAIN texts /\ texts[key] # None THEN texts[key] ELSE <<>>

CinResponse ==
    [success |-> FALSE, id_number |-> <<>>, name |-> <<>>, lastname |-> <<>>,
     confidence_id |-> Frac(0, 1), confidence_name |-> Frac(0, 1),
     confidence_lastname |-> Frac(0, 1), error_message |-> EmptyMsg]

\* variant: the failure branch clears the flag and leaves the message unset
cin_Populate_Silent(resp, texts, confs, dets) ==
    [resp EXCEPT !.id_number = Get(texts, "id"),
                 !.name = Get(texts, "name"),
                 !.lastname = Get(texts, "lastname"),
                 !.confidence_id = confs["id"],
                 !.confidence_name = confs["name"],
                 !.confidence_lastname = confs["lastname"],
                 !.success = Get(texts, "id") # <<>> \/ Get(texts, "name") # <<>>
                             \/ Get(texts, "lastname") # <<>>]

\* the response population and success decision of ExtractCinData
cin_Populate(resp, texts, confs, dets) ==
    LET filled == [resp EXCEPT !.id_number = Get(texts, "id"),
                               !.name = Get(texts, "name"),
                               !.lastname = Get(texts, "lastname"),
                               !.confidence_id = confs["id"],
                               !.confidence_name = confs["name"],
                               !.confidence_lastname = confs["lastname"]]
    IN  IF Truthy(filled.id_number) \/ Truthy(filled.name) \/ Truthy(filled.lastname)
        THEN [filled EXCEPT !.success = TRUE]
        ELSE [filled EXCEPT !.success = FALSE,
                            !.error_message =
                                IF dets = <<>>
                                THEN Msg("No relevant fields detected in the image.", <<>>)
                                ELSE Msg("No information could be extracted, or all fields were empty after OCR.", <<>>)]

\* the three handlers that close ExtractCinData
cin_HandlerMessage(type) ==
    IF type = "ValueError" THEN Msg("Image processing error: {}", <<<<type>>>>)
    ELSE IF type = "RuntimeError" THEN Msg("Runtime error during inference: {}", <<<<type>>>>)
    ELSE Msg("An unexpected error occurred: {}", <<<<type>>>>)

----------------------------------------------------------------------------
(* Inputs: what the codec, the detectors and the OCR engine may answer *)

Frames == {Image(1080, 1920)}

BoxA == <<34, 207, 167, 227>>       \* maps to (102, 201, 501, 261) in 1920x1080
BoxB == <<100, 240, 300, 300>>      \* maps to (300, 300, 900, 480)
BoxFlat == <<200, 250, 200, 300>>   \* x_min = x_max after mapping

CarRows == {Det(BoxA, 81, 0), Det(BoxB, 81, 0), Det(BoxB, 60, 0),
            Det(BoxFlat, 95, 0), Det(BoxA, 53, 0), Det(BoxB, 40, 0)}

BoxLeft == <<17, 280, 97, 360>>
BoxMid == <<105, 280, 145, 360>>
BoxRight == <<636, 270, 640, 370>>   \* maps to (396, 0, 399, 60) in a 399x60 crop
BoxThin == <<200, 300, 200, 340>>

PlateRows == {Det(BoxLeft, 90, 0), Det(BoxMid, 54, 1), Det(BoxRight, 60, 0),
              Det(BoxLeft, 70, 1), Det(BoxMid, 99, 2), Det(BoxThin, 95, 0),
              Det(BoxMid, 50, 0)}

\* a collaborator call either returns a value or raises
Returns(v) == [raises |-> FALSE, value |-> v]
Raises == [raises |-> TRUE, value |-> <<>>]

\* a (1, N, 5) tensor of rows, a tensor of another shape, or an exception
BadShape == [raises |-> FALSE, shape_ok |-> FALSE, value |-> <<>>]
CarDetectorOutcomes ==
    {[raises |-> TRUE, shape_ok |-> TRUE, value |-> <<>>], BadShape}
    \cup {[raises |-> FALSE, shape_ok |-> TRUE, value |-> rows] :
            rows \in SeqsUpTo(CarRows, MaxDets1)}
PlateDetectorOutcomes == {Raises} \cup {Returns(rows) : rows \in SeqsUpTo(PlateRows, MaxDets2)}

\* the corrector rotates, leaves the crop alone, or fails inside OpenCV
RotationOutcomes == {"rotated", "unchanged", "error"}

CinRows == {Det(BoxA, 90, 0), Det(BoxB, 70, 0), Det(BoxB, 54, 1),
            Det(BoxA, 99, 7), Det(BoxB, 50, 2), Det(BoxFlat, 95, 2)}

\* the document detector returns rows, returns tensors of another batch
\* size, or raises
CinDetectorOutcomes ==
    {[raises |-> TRUE, type |-> t, batch_ok |-> TRUE, value |-> <<>>] :
        t \in {"RuntimeError", "Exception"}}
    \cup {[raises |-> FALSE, type |-> "", batch_ok |-> FALSE, value |-> <<>>]}
    \cup {[raises |-> FALSE, type |-> "", batch_ok |-> TRUE, value |-> rows] :
            rows \in SeqsUpTo(CinRows, MaxDetsCin)}

CinTokenLists == {<<>>,
                  <<Token(<<"A", "b">>, 90)>>,
                  <<Token(<<"7">>, 80), Token(<<>>, 40)>>,
                  <<Token(<<>>, 30)>>}
CinOcrOutcomes == {Raises} \cup {Returns(tokens) : tokens \in CinTokenLists}

OcrTokenLists == {<<>>, << <<"1", "2">> >>, << <<"7">>, <<" ", "3">> >>,
                  << <<"1", "2", "3", "4">> >>}
OcrOutcomes == {Raises} \cup {Returns(tokens) : tokens \in OcrTokenLists}

----------------------------------------------------------------------------
(* Plate service: DetectPlate, step by step *)

Variants == {"service", "script", "cin"}

\* no geometry function is under test while a pipeline runs
NoCall == <<>>

\* The servicer exists only if its __init__ returned.  The plate servicer
\* raises when anything is missing; the document servicer tolerates a
\* missing OCR reader and a missing label map, not a missing model.
Servicers(v) ==
    IF v = "cin"
    THEN {[ocr_reader |-> r, compiled_model |-> TRUE, class_id_to_name |-> m] :
            r \in BOOLEAN, m \in {cin_label_map, NoLabels}}
    ELSE {[ocr_reader |-> TRUE, compiled_model |-> TRUE, class_id_to_name |-> class_map]}

Init ==
    /\ variant \in Variants
    /\ servicer \in Servicers(variant)
    /\ pc = "decode"
    /\ image_bgr = NoImage
    /\ output_dets_car = <<>>
    /\ best_plate_detection = <<0, 0, 0, 0>>
    /\ best_plate_crop = NoCrop
    /\ max_confidence_stage1 = 0
    /\ corrected_plate_crop = NoCrop
    /\ rotated = FALSE
    /\ output_dets_plate = <<>>
    /\ overall_confidence = Frac(0, 1)
    /\ sorted_detections = <<>>
    /\ ocr_i = 0
    /\ detections = <<>>
    /\ extracted_texts = [k \in CinNames |-> None]
    /\ ocr_confidences = [k \in CinNames |-> Frac(0, 1)]
    /\ cin_ocr_result_list = <<>>
    /\ result = NoResult
    /\ response = IF variant = "cin" THEN CinResponse ELSE NoResponse
    /\ stages = <<>>
    /\ raised = <<>>
    /\ parked = <<>>
    /\ call = NoCall

\* variant: a step of the invocation drops the label map of the servicer
self_after_MapDropped(self) == [self EXCEPT !.class_id_to_name = NoLabels]

\* the attributes of self after a step of _perform_detection / DetectPlate:
\* neither method assigns to self, to a module global or to an object
\* reachable from self
self_after(self) == self

\* variant: a return inside _perform_detection starts the pipeline again
Return_Restart(r) == result' = r /\ pc' = "decode"

\* return from _perform_detection: DetectPlate goes on to build the response
Return(r) == result' = r /\ pc' = "respond"

\* variant: the exception leaves _perform_detection and DetectPlate
Catch_Reraise(stage, type) ==
    /\ raised' = Append(raised, <<stage, type>>)
    /\ result' = result
    /\ pc' = "escaped"

\* except Exception as e: of _perform_detection
Catch(stage, type) ==
    /\ raised' = Append(raised, <<stage, type>>)
    /\ Return(InternalError(type))

\* 1. Decode Image
SvcDecode ==
    /\ variant = "service" /\ pc = "decode"
    /\ stages' = Append(stages, "decode")
    /\ \E img \in Frames \cup {NoImage} :
          /\ image_bgr' = img
          /\ IF img.none
             THEN Return(Result(<<>>, Frac(0, 1), Msg("Failed to decode image bytes.", <<>>)))
             ELSE pc' = "localize" /\ UNCHANGED result
    /\ servicer' = self_after(servicer)
    /\ UNCHANGED <<parked, call, cin_ocr_result_list,
                   variant, output_dets_car, best_plate_detection, best_plate_crop,
                   max_confidence_stage1, corrected_plate_crop, rotated,
                   output_dets_plate, overall_confidence, sorted_detections, ocr_i,
                   detections, extracted_texts, ocr_confidences, response, raised>>

\* 2-4. Stage 1: preprocess, inference, best-single selection
SvcLocalize ==
    /\ variant = "service" /\ pc = "localize"
    /\ stages' = Append(stages, "localize")
    /\ LET scaling_meta_car == preprocess_image_car(image_bgr, CAR_INPUT_HEIGHT, CAR_INPUT_WIDTH)
       IN  IF ResizeRaises(scaling_meta_car.new_width, scaling_meta_car.new_height)
           THEN /\ Catch("localize", "error")
                /\ UNCHANGED <<output_dets_car, best_plate_crop, max_confidence_stage1>>
           ELSE \E out \in CarDetectorOutcomes :
                  IF out.raises
                  THEN /\ Catch("localize", "RuntimeError")
                       /\ UNCHANGED <<output_dets_car, best_plate_crop, max_confidence_stage1>>
                  ELSE IF ~out.shape_ok
                  THEN /\ Return(Result(<<>>, Frac(0, 1),
                              Msg("Unexpected car model output shape: {}. Expected (1, N, 5).", <<>>)))
                       /\ UNCHANGED <<output_dets_car, best_plate_crop,
                                      max_confidence_stage1, raised>>
                  ELSE LET best == SelectBestCrop(out.value, 1, scaling_meta_car,
                                                  [crop |-> NoCrop, conf |-> 0])
                       IN  /\ output_dets_car' = out.value
                           /\ best_plate_crop' = best.crop
                           /\ max_confidence_stage1' = best.conf
                           /\ UNCHANGED raised
                           /\ IF NoRegion(best)
                              THEN Return(Result(<<>>, Frac(0, 1),
                                     Msg("No plate detected with sufficient confidence in Stage 1.", <<>>)))
                              ELSE pc' = "rotate" /\ UNCHANGED result
    /\ servicer' = self_after(servicer)
    /\ UNCHANGED <<parked, call, cin_ocr_result_list,
                   variant, image_bgr, best_plate_detection, corrected_plate_crop, rotated,
                   output_dets_plate, overall_confidence, sorted_detections, ocr_i,
                   detections, extracted_texts, ocr_confidences, response>>

\* 5. Correct Plate Rotation: the corrector returns an image of the same
\* shape, rotated or not, and returns its input on any internal error.
\* The stage-1 rows are dead once the selection is made and are dropped here.
SvcRotate ==
    /\ variant = "service" /\ pc = "rotate"
    /\ stages' = Append(stages, "rotate")
    /\ \E outcome \in RotationOutcomes :
          /\ rotated' = (outcome = "rotated")
          /\ raised' = IF outcome = "error" THEN Append(raised, <<"rotate", "error">>)
                       ELSE raised
    /\ corrected_plate_crop' = best_plate_crop
    /\ output_dets_car' = <<>>
    /\ pc' = "fields"
    /\ servicer' = self_after(servicer)
    /\ UNCHANGED <<parked, call, cin_ocr_result_list,
                   variant, image_bgr, best_plate_detection, best_plate_crop,
                   max_confidence_stage1, output_dets_plate, overall_confidence,
                   sorted_detections, ocr_i, detections, extracted_texts,
                   ocr_confidences, result, response>>

\* Stage 2: preprocess the corrected crop, inference, retain-all-valid filter
SvcFields ==
    /\ variant = "service" /\ pc = "fields"
    /\ stages' = Append(stages, "fields")
    /\ LET scaling_meta_plate == preprocess_image_plate(corrected_plate_crop,
                                     PLATE_TARGET_HEIGHT, PLATE_TARGET_WIDTH)
       IN  IF ResizeRaises(scaling_meta_plate.new_w, scaling_meta_plate.new_h)
           THEN /\ Catch("fields", "error")
                /\ UNCHANGED <<output_dets_plate, overall_confidence, sorted_detections, ocr_i>>
           ELSE \E out \in PlateDetectorOutcomes :
                  IF out.raises
                  THEN /\ Catch("fields", "RuntimeError")
                       /\ UNCHANGED <<output_dets_plate, overall_confidence,
                                      sorted_detections, ocr_i>>
                  ELSE LET relevant_detections ==
                               RelevantDetections(out.value, 1, scaling_meta_plate)
                       IN  /\ output_dets_plate' = out.value
                           /\ UNCHANGED raised
                           /\ IF NoFields(relevant_detections)
                              THEN /\ Return(Result(<<>>, Frac(max_confidence_stage1, 1),
                                          Msg("No characters detected in Stage 2", <<>>)))
                                   /\ UNCHANGED <<overall_confidence, sorted_detections, ocr_i>>
                              ELSE /\ overall_confidence' =
                                          OverallConfidence(max_confidence_stage1, relevant_detections)
                                   /\ sorted_detections' = SortedByX1(relevant_detections)
                                   /\ ocr_i' = 1
                                   /\ pc' = "ocr"
                                   /\ UNCHANGED result
    /\ servicer' = self_after(servicer)
    /\ UNCHANGED <<parked, call, cin_ocr_result_list,
                   variant, image_bgr, output_dets_car, best_plate_detection,
                   best_plate_crop, max_confidence_stage1, corrected_plate_crop,
                   rotated, detections, extracted_texts, ocr_confidences, response>>

\* Stage 3: one iteration of the OCR loop over sorted_detections.
\* The stage-2 rows are dead once the filter has run and are dropped here.
SvcOcr ==
    /\ variant = "service" /\ pc = "ocr" /\ ocr_i <= Len(sorted_detections)
    /\ stages' = IF ocr_i = 1 THEN Append(stages, "ocr") ELSE stages
    /\ output_dets_plate' = <<>>
    /\ LET det == sorted_detections[ocr_i]
       IN  IF det.class_name # "num"
           THEN UNCHANGED <<sorted_detections, raised>>
           ELSE IF OcrCropFails(det, corrected_plate_crop)
           THEN /\ sorted_detections' =
                       [sorted_detections EXCEPT ![ocr_i].ocr_text = OCR_CROP_FAIL]
                /\ UNCHANGED raised
           ELSE \E out \in OcrOutcomes :
                  IF out.raises
                  THEN /\ sorted_detections' =
                              [sorted_detections EXCEPT ![ocr_i].ocr_text = OCR_ERROR]
                       /\ raised' = Append(raised, <<"ocr", "Exception">>)
                  ELSE /\ sorted_detections' =
                              [sorted_detections EXCEPT ![ocr_i].ocr_text = OcrText(out.value)]
                       /\ UNCHANGED raised
    /\ ocr_i' = ocr_i + 1
    /\ pc' = IF ocr_i = Len(sorted_detections) THEN "assemble" ELSE "ocr"
    /\ servicer' = self_after(servicer)
    /\ UNCHANGED <<parked, call, cin_ocr_result_list,
                   variant, image_bgr, output_dets_car, best_plate_detection,
                   best_plate_crop, max_confidence_stage1, corrected_plate_crop,
                   rotated, overall_confidence, detections, extracted_texts,
                   ocr_confidences, result, response>>

\* Stage 4: assemble the plate string and return
SvcAssemble ==
    /\ variant = "service" /\ pc = "assemble"
    /\ stages' = Append(stages, "assemble")
    /\ LET a == Assemble(sorted_detections)
       IN  Return(Result(a.final_plate_string, overall_confidence,
                         IF a.error_occurred THEN a.error_message_assembly ELSE NoneMsg))
    /\ servicer' = self_after(servicer)
    /\ UNCHANGED <<parked, call, cin_ocr_result_list,
                   variant, image_bgr, output_dets_car, best_plate_detection,
                   best_plate_crop, max_confidence_stage1, corrected_plate_crop,
                   rotated, output_dets_plate, overall_confidence, sorted_detections,
                   ocr_i, detections, extracted_texts, ocr_confidences, response, raised>>

\* DetectPlate: build the PlateResponse from the returned triple
SvcRespond ==
    /\ variant = "service" /\ pc = "respond"
    /\ stages' = Append(stages, "respond")
    /\ response' = PlateResponse(result)
    /\ pc' = "done"
    /\ servicer' = self_after(servicer)
    /\ UNCHANGED <<parked, call, cin_ocr_result_list,
                   variant, image_bgr, output_dets_car, best_plate_detection,
                   best_plate_crop, max_confidence_stage1, corrected_plate_crop,
                   rotated, output_dets_plate, overall_confidence, sorted_detections,
                   ocr_i, detections, extracted_texts, ocr_confidences, result, raised>>

----------------------------------------------------------------------------
(* Script platef.py: main, step by step.  Every exception is caught by the *)
(* handler that closes main, which prints it and ends the run.             *)

\* except Exception as e: of main
Abort(stage, type) ==
    /\ raised' = Append(raised, <<stage, type>>)
    /\ result' = Result(<<>>, Frac(0, 1), Msg("Error during processing: {}", <<<<type>>>>))
    /\ pc' = "done"

\* a bare return of main after printing a diagnostic
Quit(text) ==
    /\ result' = Result(<<>>, Frac(0, 1), Msg(text, <<>>))
    /\ pc' = "done"

\* cv2.imread of the input image
ScrDecode ==
    /\ variant = "script" /\ pc = "decode"
    /\ stages' = Append(stages, "decode")
    /\ \E img \in Frames \cup {NoImage} :
          /\ image_bgr' = img
          /\ IF img.none
             THEN Abort("decode", "ValueError")
             ELSE pc' = "localize" /\ UNCHANGED <<result, raised>>
    /\ UNCHANGED <<parked, call, cin_ocr_result_list,
                   variant, servicer, output_dets_car, best_plate_detection, best_plate_crop,
                   max_confidence_stage1, corrected_plate_crop, rotated,
                   output_dets_plate, overall_confidence, sorted_detections, ocr_i,
                   detections, extracted_texts, ocr_confidences, response>>

\* Stage 1: preprocess, inference, selection of best_plate_detection, crop
ScrLocalize ==
    /\ variant = "script" /\ pc = "localize"
    /\ stages' = Append(stages, "localize")
    /\ LET meta == platef_preprocess_image_car(image_bgr, CAR_INPUT_HEIGHT, CAR_INPUT_WIDTH)
       IN  IF ResizeRaises(meta.new_width, meta.new_height)
           THEN /\ Abort("localize", "error")
                /\ UNCHANGED <<output_dets_car, best_plate_detection, best_plate_crop,
                               max_confidence_stage1>>
           ELSE \E out \in CarDetectorOutcomes \ {BadShape} :
                  IF out.raises
                  THEN /\ Abort("localize", "RuntimeError")
                       /\ UNCHANGED <<output_dets_car, best_plate_detection,
                                      best_plate_crop, max_confidence_stage1>>
                  ELSE LET best == platef_SelectBest(out.value, 1, meta,
                                       [found |-> FALSE, box |-> <<0, 0, 0, 0>>, conf |-> 0])
                           plate_crop_bgr == Crop(best.box[1], best.box[2], best.box[3], best.box[4])
                       IN  /\ output_dets_car' = out.value
                           /\ best_plate_detection' = best.box
                           /\ max_confidence_stage1' = best.conf
                           /\ IF ~best.found
                              THEN /\ Quit("No license plate detected in the image")
                                   /\ UNCHANGED <<best_plate_crop, raised>>
                              ELSE IF best.box[1] >= best.box[3] \/ best.box[2] >= best.box[4]
                              THEN /\ Abort("localize", "ValueError")
                                   /\ UNCHANGED best_plate_crop
                              ELSE IF CropSize(plate_crop_bgr) = 0
                              THEN /\ Abort("localize", "ValueError")
                                   /\ UNCHANGED best_plate_crop
                              ELSE /\ best_plate_crop' = plate_crop_bgr
                                   /\ pc' = "rotate"
                                   /\ UNCHANGED <<result, raised>>
    /\ UNCHANGED <<parked, call, cin_ocr_result_list,
                   variant, servicer, image_bgr, corrected_plate_crop, rotated,
                   output_dets_plate, overall_confidence, sorted_detections, ocr_i,
                   detections, extracted_texts, ocr_confidences, response>>

\* detect_and_correct_rotation of platef.py has no handler of its own.
\* The stage-1 rows are dead once the selection is made and are dropped here.
ScrRotate ==
    /\ variant = "script" /\ pc = "rotate"
    /\ stages' = Append(stages, "rotate")
    /\ output_dets_car' = <<>>
    /\ \E outcome \in RotationOutcomes :
          IF outcome = "error"
          THEN /\ Abort("rotate", "error")
               /\ UNCHANGED <<rotated, corrected_plate_crop>>
          ELSE /\ rotated' = (outcome = "rotated")
               /\ corrected_plate_crop' = best_plate_crop
               /\ pc' = "fields"
               /\ UNCHANGED <<result, raised>>
    /\ UNCHANGED <<parked, call, cin_ocr_result_list,
                   variant, servicer, image_bgr, best_plate_detection, best_plate_crop,
                   max_confidence_stage1, output_dets_plate, overall_confidence,
                   sorted_detections, ocr_i, detections, extracted_texts,
                   ocr_confidences, response>>

\* Stage 2: preprocess the saved crop (same computation as the service's
\* preprocess_image_plate), inference, filter, sort
ScrFields ==
    /\ variant = "script" /\ pc = "fields"
    /\ stages' = Append(stages, "fields")
    /\ LET scaling_meta == preprocess_image_plate(corrected_plate_crop,
                               PLATE_TARGET_HEIGHT, PLATE_TARGET_WIDTH)
       IN  IF ResizeRaises(scaling_meta.new_w, scaling_meta.new_h)
           THEN /\ Abort("fields", "error")
                /\ UNCHANGED <<output_dets_plate, sorted_detections, ocr_i>>
           ELSE \E out \in PlateDetectorOutcomes :
                  IF out.raises
                  THEN /\ Abort("fields", "RuntimeError")
                       /\ UNCHANGED <<output_dets_plate, sorted_detections, ocr_i>>
                  ELSE LET relevant_detections ==
                               platef_RelevantDetections(out.value, 1, scaling_meta)
                       IN  /\ output_dets_plate' = out.value
                           /\ sorted_detections' = SortedByX1(relevant_detections)
                           /\ ocr_i' = 1
                           /\ pc' = IF relevant_detections = <<>> THEN "assemble" ELSE "ocr"
                           /\ UNCHANGED <<result, raised>>
    /\ UNCHANGED <<parked, call, cin_ocr_result_list,
                   variant, servicer, image_bgr, output_dets_car, best_plate_detection,
                   best_plate_crop, max_confidence_stage1, corrected_plate_crop,
                   rotated, overall_confidence, detections, extracted_texts,
                   ocr_confidences, response>>

\* one iteration of the OCR loop of main.
\* The stage-2 rows are dead once the filter has run and are dropped here.
ScrOcr ==
    /\ variant = "script" /\ pc = "ocr" /\ ocr_i <= Len(sorted_detections)
    /\ stages' = IF ocr_i = 1 THEN Append(stages, "ocr") ELSE stages
    /\ output_dets_plate' = <<>>
    /\ LET det == sorted_detections[ocr_i]
       IN  IF det.class_name # "num"
           THEN UNCHANGED <<sorted_detections, raised>>
           ELSE IF OcrCropFails(det, corrected_plate_crop)
           THEN /\ sorted_detections' =
                       [sorted_detections EXCEPT ![ocr_i].ocr_text = OCR_CROP_FAIL]
                /\ UNCHANGED raised
           ELSE \E out \in OcrOutcomes :
                  IF out.raises
                  THEN /\ sorted_detections' =
                              [sorted_detections EXCEPT ![ocr_i].ocr_text = OCR_ERROR]
                       /\ raised' = Append(raised, <<"ocr", "Exception">>)
                  ELSE /\ sorted_detections' =
                              [sorted_detections EXCEPT ![ocr_i].ocr_text = platef_OcrText(out.value)]
                       /\ UNCHANGED raised
    /\ ocr_i' = ocr_i + 1
    /\ pc' = IF ocr_i = Len(sorted_detections) THEN "assemble" ELSE "ocr"
    /\ UNCHANGED <<parked, call, cin_ocr_result_list,
                   variant, servicer, image_bgr, output_dets_car, best_plate_detection,
                   best_plate_crop, max_confidence_stage1, corrected_plate_crop,
                   rotated, overall_confidence, detections, extracted_texts,
                   ocr_confidences, result, response>>

\* format and print the final plate string
ScrAssemble ==
    /\ variant = "script" /\ pc = "assemble"
    /\ stages' = Append(stages, "assemble")
    /\ output_dets_plate' = <<>>
    /\ result' = Result(platef_FinalOcrString(sorted_detections), Frac(0, 1), NoneMsg)
    /\ pc' = "done"
    /\ UNCHANGED <<parked, call, cin_ocr_result_list,
                   variant, servicer, image_bgr, output_dets_car, best_plate_detection,
                   best_plate_crop, max_confidence_stage1, corrected_plate_crop,
                   rotated, overall_confidence, sorted_detections,
                   ocr_i, detections, extracted_texts, ocr_confidences, response, raised>>

----------------------------------------------------------------------------
(* Document service: ExtractCinData, step by step *)

\* the attributes of self after a step of ExtractCinData, which assigns none
cin_self_after(self) == self

\* return response
CinReturn(resp) == response' = resp /\ pc' = "done"

\* except ...: response.error_message = ...; return response
CinCatch(stage, type) ==
    /\ raised' = Append(raised, <<stage, type>>)
    /\ CinReturn([response EXCEPT !.error_message = cin_HandlerMessage(type)])

\* initialization guards, then decoding of the image bytes
CinDecode ==
    /\ variant = "cin" /\ pc = "decode"
    /\ IF ~servicer.ocr_reader
       THEN /\ CinReturn([response EXCEPT !.error_message =
                              Msg("OCR reader is not initialized.", <<>>)])
            /\ UNCHANGED <<image_bgr, stages>>
       ELSE IF ~servicer.compiled_model
       THEN /\ CinReturn([response EXCEPT !.error_message =
                              Msg("OpenVINO model is not initialized.", <<>>)])
            /\ UNCHANGED <<image_bgr, stages>>
       ELSE /\ stages' = Append(stages, "decode")
            /\ \E img \in Frames \cup {NoImage} :
                  /\ image_bgr' = img
                  /\ IF img.none
                     THEN CinReturn([response EXCEPT !.error_message =
                                        Msg("Failed to decode image data.", <<>>)])
                     ELSE pc' = "fields" /\ UNCHANGED response
    /\ servicer' = cin_self_after(servicer)
    /\ UNCHANGED <<parked, call, cin_ocr_result_list,
                   variant, output_dets_car, best_plate_detection,
                   best_plate_crop, max_confidence_stage1, corrected_plate_crop,
                   rotated, output_dets_plate, overall_confidence, sorted_detections,
                   ocr_i, detections, extracted_texts, ocr_confidences, result, raised>>

\* preprocess, inference, threshold filter and mapping
CinFields ==
    /\ variant = "cin" /\ pc = "fields"
    /\ stages' = Append(stages, "fields")
    /\ LET meta == _preprocess_image(image_bgr, INPUT_HEIGHT, INPUT_WIDTH)
       IN  IF meta.new_h <= 0 \/ meta.new_w <= 0
           THEN /\ CinCatch("fields", "ValueError")
                /\ UNCHANGED <<output_dets_plate, detections, ocr_i>>
           ELSE \E out \in CinDetectorOutcomes :
                  IF out.raises
                  THEN /\ CinCatch("fields", out.type)
                       /\ UNCHANGED <<output_dets_plate, detections, ocr_i>>
                  ELSE /\ output_dets_plate' = out.value
                       /\ detections' = IF out.batch_ok
                                        THEN cin_Detections(out.value, 1, meta,
                                                            servicer.class_id_to_name)
                                        ELSE <<>>
                       /\ ocr_i' = 1
                       /\ pc' = IF detections' = <<>> THEN "populate" ELSE "ocr"
                       /\ UNCHANGED <<response, raised>>
    /\ servicer' = cin_self_after(servicer)
    /\ UNCHANGED <<parked, call, cin_ocr_result_list,
                   variant, image_bgr, output_dets_car, best_plate_detection,
                   best_plate_crop, max_confidence_stage1, corrected_plate_crop,
                   rotated, overall_confidence, sorted_detections,
                   extracted_texts, ocr_confidences, result>>

\* one iteration of the per-field OCR loop.
\* The detector rows are dead once the filter has run and are dropped here.
CinOcr ==
    /\ variant = "cin" /\ pc = "ocr" /\ ocr_i <= Len(detections)
    /\ stages' = IF ocr_i = 1 THEN Append(stages, "ocr") ELSE stages
    /\ output_dets_plate' = <<>>
    /\ LET det == detections[ocr_i]
           field_name == det.class_name
           b == det.box_orig
           cropped_image == Crop(b[1], b[2], b[3], b[4])
           continue == /\ ocr_i' = ocr_i + 1
                       /\ pc' = IF ocr_i = Len(detections) THEN "populate" ELSE "ocr"
                       /\ UNCHANGED <<response, raised>>
       IN  IF b[1] >= b[3] \/ b[2] >= b[4]
           THEN continue /\ UNCHANGED <<extracted_texts, ocr_confidences, cin_ocr_result_list>>
           ELSE IF CropSize(cropped_image) = 0
           THEN continue /\ UNCHANGED <<extracted_texts, ocr_confidences, cin_ocr_result_list>>
           ELSE \E out \in CinOcrOutcomes :
                  IF out.raises
                  THEN /\ CinCatch("ocr", "Exception")
                       /\ UNCHANGED <<extracted_texts, ocr_confidences, ocr_i,
                                       cin_ocr_result_list>>
                  ELSE /\ continue
                       /\ cin_ocr_result_list' = out.value
                       /\ IF out.value # <<>>
                          THEN /\ extracted_texts' =
                                     [extracted_texts EXCEPT ![field_name] =
                                          Strip(cin_FieldText(out.value))]
                               /\ ocr_confidences' =
                                     [ocr_confidences EXCEPT ![field_name] =
                                          Frac(cin_ConfidenceSum(out.value), Len(out.value))]
                          ELSE UNCHANGED <<extracted_texts, ocr_confidences>>
    /\ servicer' = cin_self_after(servicer)
    /\ UNCHANGED <<parked, call, variant, image_bgr, output_dets_car, best_plate_detection,
                   best_plate_crop, max_confidence_stage1, corrected_plate_crop,
                   rotated, overall_confidence, sorted_detections, detections, result>>

\* populate the response, decide success, return
CinPopulate ==
    /\ variant = "cin" /\ pc = "populate"
    /\ stages' = Append(stages, "respond")
    /\ output_dets_plate' = <<>>
    /\ CinReturn(cin_Populate(response, extracted_texts, ocr_confidences, detections))
    /\ servicer' = cin_self_after(servicer)
    /\ UNCHANGED <<parked, call, cin_ocr_result_list,
                   variant, image_bgr, output_dets_car, best_plate_detection,
                   best_plate_crop, max_confidence_stage1, corrected_plate_crop,
                   rotated, overall_confidence, sorted_detections, ocr_i,
                   detections, extracted_texts, ocr_confidences, result, raised>>

Next ==
    \/ SvcDecode
    \/ SvcLocalize
    \/ SvcRotate
    \/ SvcFields
    \/ SvcOcr
    \/ SvcAssemble
    \/ SvcRespond
    \/ ScrDecode
    \/ ScrLocalize
    \/ ScrRotate
    \/ ScrFields
    \/ ScrOcr
    \/ ScrAssemble
    \/ CinDecode
    \/ CinFields
    \/ CinOcr
    \/ CinPopulate

Spec == Init /\ [][Next]_vars

----------------------------------------------------------------------------
(* The sequence assembler on its own: stage 4 of _perform_detection with   *)
(* DetectPlate's response, and the assembly block of platef's main, applied *)
(* to every list of sorted detections up to MaxDets2 entries.               *)

\* the k-th detection from the left, with its class and its OCR outcome
AsmDet(k, slot) ==
    [x1 |-> 40 * k, y1 |-> 4, x2 |-> 40 * k + 30, y2 |-> 54, confidence |-> 90,
     class_name |-> slot[1], ocr_text |-> slot[2]]

\* 'tun' detections keep ocr_text None; 'num' detections hold a text or a sentinel
AsmSlots ==
    {<<"tun", None>>}
    \cup {<<"num", t>> : t \in {<<"1", "2">>, NO_DIGITS, OCR_ERROR, OCR_CROP_FAIL}}

AssemblerInputs ==
    UNION {{[k \in 1..n |-> AsmDet(k, f[k])] : f \in [1..n -> AsmSlots]} : n \in 0..MaxDets2}

AsmInit ==
    /\ variant \in {"service", "script"}
    /\ servicer \in Servicers(variant)
    /\ pc = "assemble"
    /\ image_bgr = NoImage
    /\ output_dets_car = <<>>
    /\ best_plate_detection = <<0, 0, 0, 0>>
    /\ best_plate_crop = NoCrop
    /\ max_confidence_stage1 = 0
    /\ corrected_plate_crop = NoCrop
    /\ rotated = FALSE
    /\ output_dets_plate = <<>>
    /\ overall_confidence = Frac(0, 1)
    /\ sorted_detections \in AssemblerInputs
    /\ ocr_i = 0
    /\ detections = <<>>
    /\ extracted_texts = [k \in CinNames |-> None]
    /\ ocr_confidences = [k \in CinNames |-> Frac(0, 1)]
    /\ cin_ocr_result_list = <<>>
    /\ result = NoResult
    /\ response = NoResponse
    /\ stages = <<>>
    /\ raised = <<>>
    /\ parked = <<>>
    /\ call = NoCall

AsmNext ==
    \/ SvcAssemble
    \/ SvcRespond
    \/ ScrAssemble

AssemblerSpec == AsmInit /\ [][AsmNext]_vars

----------------------------------------------------------------------------
(* The worker pool: serve() hands the one servicer instance to a           *)
(* ThreadPoolExecutor, so invocations of DetectPlate (or of ExtractCinData) *)
(* run on several threads against the same self.  The variables above hold  *)
(* the frame of the invocation that takes the next step; the frame of the   *)
(* other one waits in parked.  Any interleaving of the two is a sequence of *)
(* steps and switches.                                                      *)

\* the local variables of one invocation
Frame ==
    [pc |-> pc, image_bgr |-> image_bgr, output_dets_car |-> output_dets_car,
     best_plate_detection |-> best_plate_detection, best_plate_crop |-> best_plate_crop,
     max_confidence_stage1 |-> max_confidence_stage1,
     corrected_plate_crop |-> corrected_plate_crop, rotated |-> rotated,
     output_dets_plate |-> output_dets_plate, overall_confidence |-> overall_confidence,
     sorted_detections |-> sorted_detections, ocr_i |-> ocr_i, detections |-> detections,
     extracted_texts |-> extracted_texts, ocr_confidences |-> ocr_confidences,
     cin_ocr_result_list |-> cin_ocr_result_list,
     result |-> result, response |-> response, stages |-> stages, raised |-> raised]

\* the frame of an invocation that has not taken a step yet
NewFrame(v) ==
    [pc |-> "decode", image_bgr |-> NoImage, output_dets_car |-> <<>>,
     best_plate_detection |-> <<0, 0, 0, 0>>, best_plate_crop |-> NoCrop,
     max_confidence_stage1 |-> 0, corrected_plate_crop |-> NoCrop, rotated |-> FALSE,
     output_dets_plate |-> <<>>, overall_confidence |-> Frac(0, 1),
     sorted_detections |-> <<>>, ocr_i |-> 0, detections |-> <<>>,
     extracted_texts |-> [k \in CinNames |-> None],
     ocr_confidences |-> [k \in CinNames |-> Frac(0, 1)],
     cin_ocr_result_list |-> <<>>,
     result |-> NoResult,
     response |-> IF v = "cin" THEN CinResponse ELSE NoResponse,
     stages |-> <<>>, raised |-> <<>>]

\* the scheduler lets the other thread run
Switch ==
    /\ parked # <<>>
    /\ parked' = <<Frame>>
    /\ pc' = parked[1].pc
    /\ image_bgr' = parked[1].image_bgr
    /\ output_dets_car' = parked[1].output_dets_car
    /\ best_plate_detection' = parked[1].best_plate_detection
    /\ best_plate_crop' = parked[1].best_plate_crop
    /\ max_confidence_stage1' = parked[1].max_confidence_stage1
    /\ corrected_plate_crop' = parked[1].corrected_plate_crop
    /\ rotated' = parked[1].rotated
    /\ output_dets_plate' = parked[1].output_dets_plate
    /\ overall_confidence' = parked[1].overall_confidence
    /\ sorted_detections' = parked[1].sorted_detections
    /\ ocr_i' = parked[1].ocr_i
    /\ detections' = parked[1].detections
    /\ extracted_texts' = parked[1].extracted_texts
    /\ ocr_confidences' = parked[1].ocr_confidences
    /\ cin_ocr_result_list' = parked[1].cin_ocr_result_list
    /\ result' = parked[1].result
    /\ response' = parked[1].response
    /\ stages' = parked[1].stages
    /\ raised' = parked[1].raised
    /\ UNCHANGED <<variant, servicer, call>>

\* the detector rows offered to the invocations of the pool
PoolCarRows == {Det(BoxA, 81, 0)}
PoolPlateRows == {Det(BoxLeft, 90, 0), Det(BoxMid, 54, 1)}
PoolCinRows == {Det(BoxA, 90, 0)}

\* each offered row at most once
PoolRowsOnly ==
    /\ Range(output_dets_car) \subseteq PoolCarRows
    /\ Range(output_dets_plate) \subseteq
          (IF variant = "cin" THEN PoolCinRows ELSE PoolPlateRows)
    /\ Cardinality(Range(output_dets_car)) = Len(output_dets_car)
    /\ Cardinality(Range(output_dets_plate)) = Len(output_dets_plate)

PoolSvcLocalize == SvcLocalize /\ PoolRowsOnly'
PoolSvcFields == SvcFields /\ PoolRowsOnly'
PoolCinFields == CinFields /\ PoolRowsOnly'

PoolInit ==
    /\ variant \in {"service", "cin"}
    /\ servicer \in Servicers(variant)
    /\ pc = "decode"
    /\ image_bgr = NoImage
    /\ output_dets_car = <<>>
    /\ best_plate_detection = <<0, 0, 0, 0>>
    /\ best_plate_crop = NoCrop
    /\ max_confidence_stage1 = 0
    /\ corrected_plate_crop = NoCrop
    /\ rotated = FALSE
    /\ output_dets_plate = <<>>
    /\ overall_confidence = Frac(0, 1)
    /\ sorted_detections = <<>>
    /\ ocr_i = 0
    /\ detections = <<>>
    /\ extracted_texts = [k \in CinNames |-> None]
    /\ ocr_confidences = [k \in CinNames |-> Frac(0, 1)]
    /\ cin_ocr_result_list = <<>>
    /\ result = NoResult
    /\ response = IF variant = "cin" THEN CinResponse ELSE NoResponse
    /\ stages = <<>>
    /\ raised = <<>>
    /\ parked = <<NewFrame(variant)>>
    /\ call = NoCall

PoolNext ==
    \/ SvcDecode
    \/ PoolSvcLocalize
    \/ SvcRotate
    \/ PoolSvcFields
    \/ SvcOcr
    \/ SvcAssemble
    \/ SvcRespond
    \/ CinDecode
    \/ PoolCinFields
    \/ CinOcr
    \/ CinPopulate
    \/ Switch

PoolSpec == PoolInit /\ [][PoolNext]_vars

----------------------------------------------------------------------------
(* The geometry functions on their own: every image normalizer and every   *)
(* model-space to reference-space mapping of the three variants, applied   *)
(* to arguments drawn from bounded sets.  call holds the function, its     *)
(* arguments and, once it has returned or raised, its outcome.             *)

\* module-level preprocess_image_car (the method of the servicer repeats it)
module_preprocess_image_car(image, target_height, target_width) ==
    LET scale == MinScale(target_height, target_width, image.h, image.w)
        new_height == RoundDiv(image.h * scale.n, scale.d)
        new_width == RoundDiv(image.w * scale.n, scale.d)
    IN  [original_height |-> image.h, original_width |-> image.w,
         scale |-> scale, new_height |-> new_height, new_width |-> new_width,
         pad_top |-> (target_height - new_height) \div 2,
         pad_left |-> (target_width - new_width) \div 2]

\* module-level scale_coords_car: both ends of every coordinate are clipped
module_scale_coords_car(coords, scaling_meta) ==
    LET scale == scaling_meta.scale
    IN  IF scale.n = 0 THEN <<0, 0, 0, 0>>
        ELSE <<Clamp(TruncDiv((coords[1] - scaling_meta.pad_left) * scale.d, scale.n),
                     scaling_meta.original_width),
               Clamp(TruncDiv((coords[2] - scaling_meta.pad_top) * scale.d, scale.n),
                     scaling_meta.original_height),
               Clamp(TruncDiv((coords[3] - scaling_meta.pad_left) * scale.d, scale.n),
                     scaling_meta.original_width),
               Clamp(TruncDiv((coords[4] - scaling_meta.pad_top) * scale.d, scale.n),
                     scaling_meta.original_height)>>

\* where the normalizer puts reference pixel v: resized by scale, pasted at pad
toModelSpace(v, scale, pad) == Frac(v * scale.n + pad * scale.d, scale.d)

\* x_min, y_min, x_max, y_max = map(int, detection_data[:4])
MapInt(q) == TruncDiv(q.n, q.d)

\* the outcome of a call: the exception type ("" when it returned), the
\* returned box, and the (width, height) handed to cv2.resize if it got there
Outcome(raises, value, resize) == [raises |-> raises, value |-> value, resize |-> resize]
Pending == Outcome("pending", <<>>, <<>>)

\* target / original with a zero original: Python int division
ZeroDims(h, w) == h = 0 \/ w = 0

\* preprocess_image_car of the servicer: no test of the sizes before cv2.resize
SvcCarNormalize(image) ==
    IF ZeroDims(image.h, image.w) THEN Outcome("ZeroDivisionError", <<>>, <<>>)
    ELSE LET m == preprocess_image_car(image, CAR_INPUT_HEIGHT, CAR_INPUT_WIDTH)
         IN  Outcome(IF ResizeRaises(m.new_width, m.new_height) THEN "cv2.error" ELSE "",
                     <<>>, <<m.new_width, m.new_height>>)

\* preprocess_image_plate of the servicer
SvcPlateNormalize(image) ==
    IF ZeroDims(image.h, image.w) THEN Outcome("ZeroDivisionError", <<>>, <<>>)
    ELSE LET m == preprocess_image_plate(Crop(0, 0, image.w, image.h),
                                         PLATE_TARGET_HEIGHT, PLATE_TARGET_WIDTH)
         IN  Outcome(IF ResizeRaises(m.new_w, m.new_h) THEN "cv2.error" ELSE "",
                     <<>>, <<m.new_w, m.new_h>>)

\* preprocess_image_car of platef.py
ScrCarNormalize(image) ==
    IF ZeroDims(image.h, image.w) THEN Outcome("ZeroDivisionError", <<>>, <<>>)
    ELSE LET m == platef_preprocess_image_car(image, CAR_INPUT_HEIGHT, CAR_INPUT_WIDTH)
         IN  Outcome(IF ResizeRaises(m.new_width, m.new_height) THEN "cv2.error" ELSE "",
                     <<>>, <<m.new_width, m.new_height>>)

\* _preprocess_image of the document servicer: the resized sizes are tested
CinNormalize(image) ==
    IF ZeroDims(image.h, image.w) THEN Outcome("ZeroDivisionError", <<>>, <<>>)
    ELSE LET m == _preprocess_image(image, INPUT_HEIGHT, INPUT_WIDTH)
         IN  IF m.new_h <= 0 \/ m.new_w <= 0
             THEN Outcome("ValueError: Invalid resized dimensions", <<>>, <<>>)
             ELSE Outcome("", <<>>, <<m.new_w, m.new_h>>)

\* numpy's quotient of a float32 by the Python float 0.0
ZeroQuot(n) == IF n > 0 THEN "inf" ELSE IF n < 0 THEN "-inf" ELSE "nan"

\* the inline mapping of ExtractCinData with any scale: max(0, q) and
\* min(orig, q) leave an infinity through, and int() of it raises
CinMap(box, meta) ==
    IF meta.scale.n # 0 THEN Outcome("", cin_box_orig(box, meta), <<>>)
    ELSE LET x_min == ZeroQuot(box[1] - meta.pad_left)
             y_min == ZeroQuot(box[2] - meta.pad_top)
             x_max == ZeroQuot(box[3] - meta.pad_left)
             y_max == ZeroQuot(box[4] - meta.pad_top)
         IN  IF x_min = "inf" \/ y_min = "inf" \/ x_max = "-inf" \/ y_max = "-inf"
             THEN Outcome("OverflowError", <<>>, <<>>)
             ELSE Outcome("", <<0, 0, meta.orig_w, meta.orig_h>>, <<>>)

\* the inline stage-1 mapping of platef's main with any scale: int() is
\* applied to the quotient itself
ScrMap(box_raw, scaling_meta) ==
    IF scaling_meta.scale.n # 0 THEN Outcome("", platef_map_car(box_raw, scaling_meta), <<>>)
    ELSE Outcome(IF ZeroQuot(box_raw[1] - scaling_meta.pad_left) = "nan"
                 THEN "ValueError" ELSE "OverflowError", <<>>, <<>>)

\* angles are counted in tenths of a degree
Deg(d) == 10 * d
ANGLE_THRESHOLD == 20

\* variant: the branch for angles above 45 degrees is missing
NormalizeAngle_NoUpper(angle) ==
    IF angle < -Deg(45) THEN Deg(90) + angle ELSE angle

\* if angle < -45: angle = 90 + angle / elif angle > 45: angle = angle - 90
NormalizeAngle(angle) ==
    IF angle < -Deg(45) THEN Deg(90) + angle
    ELSE IF angle > Deg(45) THEN angle - Deg(90)
    ELSE angle

\* if abs(angle) < ANGLE_THRESHOLD: return plate_img
RotationSkipped(angle) == (IF angle < 0 THEN -angle ELSE angle) < ANGLE_THRESHOLD

\* detect_and_correct_rotation from the rectangle fit on: the normalized
\* angle, 1 when warpAffine was applied with it, and the (w, h) it was given
Correct(image, angle) ==
    LET normalized == NormalizeAngle(angle)
    IN  IF RotationSkipped(normalized) THEN Outcome("", <<normalized, 0>>, <<>>)
        ELSE Outcome("", <<normalized, 1>>, <<image.w, image.h>>)

\* what minAreaRect can return
RawAngles == (-Deg(90))..Deg(90)
Correctors == {"detect_and_correct_rotation", "platef.detect_and_correct_rotation"}

\* the functions under test
Mappers == {"scale_coords_car", "scale_coords_plate", "platef.scale_coords",
            "platef.main", "ExtractCinData"}
Normalizers == {"preprocess_image_car", "preprocess_image_plate",
                "platef.preprocess_image_car", "_preprocess_image"}

GeoScales == {Frac(0, 1), Frac(1, 3), Frac(1, 1)}
GeoPads == {0, 140}
GeoMapBoxes == {BoxA, <<0, 140, 10, 150>>, <<0, 0, 30, 100>>}
GeoShapes == {Image(1080, 1920), Image(0, 0), Image(0, 10), Image(10, 0),
              Image(1, 1400), Image(1400, 1), Image(60, 400)}
GeoRoundTripBoxes == {<<100, 200, 500, 260>>, <<101, 200, 500, 260>>, <<0, 0, 30, 30>>,
                      <<300, 300, 900, 480>>, <<2, 1, 640, 360>>}

Call(fn, image, scale, pad_top, pad_left, box) ==
    [fn |-> fn, image |-> image, scale |-> scale, pad_top |-> pad_top,
     pad_left |-> pad_left, box |-> box, angle |-> 0, ret |-> Pending]

\* the corrector on the angle minAreaRect returned, in tenths of a degree
RotCall(fn, angle) ==
    [Call(fn, Image(60, 399), Frac(0, 1), 0, 0, <<0, 0, 0, 0>>) EXCEPT !.angle = angle]

GeoCalls ==
    {RotCall(fn, a) : fn \in Correctors, a \in RawAngles} \cup
    {Call(fn, Image(1080, 1920), sc, pad, 0, b) :
        fn \in Mappers, sc \in GeoScales, pad \in GeoPads, b \in GeoMapBoxes}
    \cup {Call(fn, im, Frac(0, 1), 0, 0, <<0, 0, 0, 0>>) : fn \in Normalizers, im \in GeoShapes}
    \cup {c \in {Call("round_trip", im, Frac(0, 1), 0, 0, b) :
                    im \in {Image(1080, 1920), Image(640, 640), Image(320, 480)},
                    b \in GeoRoundTripBoxes} :
            c.box[3] <= c.image.w /\ c.box[4] <= c.image.h}

GeoInit ==
    /\ variant \in Variants
    /\ servicer \in Servicers(variant)
    /\ pc = "call"
    /\ image_bgr = NoImage
    /\ output_dets_car = <<>>
    /\ best_plate_detection = <<0, 0, 0, 0>>
    /\ best_plate_crop = NoCrop
    /\ max_confidence_stage1 = 0
    /\ corrected_plate_crop = NoCrop
    /\ rotated = FALSE
    /\ output_dets_plate = <<>>
    /\ overall_confidence = Frac(0, 1)
    /\ sorted_detections = <<>>
    /\ ocr_i = 0
    /\ detections = <<>>
    /\ extracted_texts = [k \in CinNames |-> None]
    /\ ocr_confidences = [k \in CinNames |-> Frac(0, 1)]
    /\ cin_ocr_result_list = <<>>
    /\ result = NoResult
    /\ response = IF variant = "cin" THEN CinResponse ELSE NoResponse
    /\ stages = <<>>
    /\ raised = <<>>
    /\ parked = <<>>
    /\ call \in GeoCalls
    /\ variant = (IF call.fn \in {"platef.scale_coords", "platef.main",
                                  "platef.preprocess_image_car",
                                  "platef.detect_and_correct_rotation"} THEN "script"
                  ELSE IF call.fn \in {"ExtractCinData", "_preprocess_image"} THEN "cin"
                  ELSE "service")
    /\ servicer.ocr_reader

\* the call returns or raises; nothing else moves
Returned(outcome) ==
    /\ pc = "call"
    /\ call' = [call EXCEPT !.ret = outcome]
    /\ pc' = "returned"
    /\ UNCHANGED <<variant, servicer, image_bgr, output_dets_car, best_plate_detection,
                   best_plate_crop, max_confidence_stage1, corrected_plate_crop, rotated,
                   output_dets_plate, overall_confidence, sorted_detections, ocr_i,
                   detections, extracted_texts, ocr_confidences, result, response,
                   stages, raised, parked, cin_ocr_result_list>>

GeoSvcScaleCar ==
    /\ call.fn = "scale_coords_car"
    /\ Returned(
        Outcome("", scale_coords_car(call.box,
                        [original_height |-> call.image.h, original_width |-> call.image.w,
                         scale |-> call.scale, pad_top |-> call.pad_top,
                         pad_left |-> call.pad_left]), <<>>))

GeoSvcScalePlate ==
    /\ call.fn = "scale_coords_plate"
    /\ Returned(
        Outcome("", scale_coords_plate(call.box,
                        [original_h |-> call.image.h, original_w |-> call.image.w,
                         scale |-> call.scale, top_pad |-> call.pad_top,
                         left_pad |-> call.pad_left]), <<>>))

GeoScrScaleCoords ==
    /\ call.fn = "platef.scale_coords"
    /\ Returned(
        Outcome("", platef_scale_coords(call.box,
                        [original_h |-> call.image.h, original_w |-> call.image.w,
                         scale |-> call.scale, top_pad |-> call.pad_top,
                         left_pad |-> call.pad_left]), <<>>))

GeoScrMap ==
    /\ call.fn = "platef.main"
    /\ Returned(
        ScrMap(call.box, [original_height |-> call.image.h, original_width |-> call.image.w,
                          scale |-> call.scale, pad_top |-> call.pad_top,
                          pad_left |-> call.pad_left]))

GeoCinMap ==
    /\ call.fn = "ExtractCinData"
    /\ Returned(
        CinMap(call.box, [orig_h |-> call.image.h, orig_w |-> call.image.w,
                          scale |-> call.scale, pad_top |-> call.pad_top,
                          pad_left |-> call.pad_left]))

GeoSvcCarNormalize ==
    /\ call.fn = "preprocess_image_car"
    /\ Returned(SvcCarNormalize(call.image))
GeoSvcPlateNormalize ==
    /\ call.fn = "preprocess_image_plate"
    /\ Returned(SvcPlateNormalize(call.image))
GeoScrCarNormalize ==
    /\ call.fn = "platef.preprocess_image_car"
    /\ Returned(ScrCarNormalize(call.image))
GeoCinNormalize ==
    /\ call.fn = "_preprocess_image"
    /\ Returned(CinNormalize(call.image))

\* a reference box through the normalizer's placement, the int() of the
\* stage-1 loop, and scale_coords_car
GeoRoundTrip ==
    LET m == module_preprocess_image_car(call.image, CAR_INPUT_HEIGHT, CAR_INPUT_WIDTH)
        x_min == MapInt(toModelSpace(call.box[1], m.scale, m.pad_left))
        y_min == MapInt(toModelSpace(call.box[2], m.scale, m.pad_top))
        x_max == MapInt(toModelSpace(call.box[3], m.scale, m.pad_left))
        y_max == MapInt(toModelSpace(call.box[4], m.scale, m.pad_top))
    IN  /\ call.fn = "round_trip"
        /\ Returned(Outcome("", module_scale_coords_car(<<x_min, y_min, x_max, y_max>>, m),
                            <<>>))

GeoSvcCorrect ==
    /\ call.fn = "detect_and_correct_rotation"
    /\ Returned(Correct(call.image, call.angle))

GeoScrCorrect ==
    /\ call.fn = "platef.detect_and_correct_rotation"
    /\ Returned(Correct(call.image, call.angle))

GeoNext ==
    \/ GeoSvcCorrect
    \/ GeoScrCorrect
    \/ GeoSvcScaleCar
    \/ GeoSvcScalePlate
    \/ GeoScrScaleCoords
    \/ GeoScrMap
    \/ GeoCinMap
    \/ GeoSvcCarNormalize
    \/ GeoSvcPlateNormalize
    \/ GeoScrCarNormalize
    \/ GeoCinNormalize
    \/ GeoRoundTrip

GeometrySpec == GeoInit /\ [][GeoNext]_vars

----------------------------------------------------------------------------
(* Start-up: serve() builds the one servicer and starts the server only if *)
(* the constructor returned.  The files the constructor reads are part of   *)
(* the deployment: the class label map (dm.json) may be missing or          *)
(* unreadable, and the document service's OCR reader may fail to load.      *)

\* no servicer object yet (and none ever, when the constructor raised)
NoServicer == [ocr_reader |-> FALSE, compiled_model |-> FALSE, class_id_to_name |-> NoLabels]

\* what load_metadata / _load_label_map gets out of dm.json
LabelMapFiles == {"present", "missing", "unparsable"}

\* what serve() finds on disk: the stage-1 model (plate service only), the
\* stage-2 / document model, dm.json with transforms.yaml, and whether
\* easyocr.Reader can be built
Deployment(car_model, model, dm_json, easyocr) ==
    [fn |-> "serve", car_model |-> car_model, model |-> model, dm_json |-> dm_json,
     easyocr |-> easyocr]

Deployments(v) ==
    {Deployment(c, m, d, o) : c \in (IF v = "cin" THEN {TRUE} ELSE BOOLEAN),
                              m \in BOOLEAN, d \in LabelMapFiles, o \in BOOLEAN}

\* variant: a failed easyocr.Reader is logged and the constructor returns
PlateDetectionServicer_ReaderOptional(files) ==
    IF ~files.car_model THEN [raises |-> "FileNotFoundError", value |-> NoServicer]
    ELSE IF ~files.model \/ files.dm_json # "present"
    THEN [raises |-> "ValueError", value |-> NoServicer]
    ELSE [raises |-> "", value |-> [ocr_reader |-> files.easyocr, compiled_model |-> TRUE,
                                    class_id_to_name |-> class_map]]

\* PlateDetectionServicer.__init__: the stage-1 model, then the stage-2
\* model and load_metadata (which returns (None, None) on any exception)
\* under one handler that raises ValueError, then easyocr.Reader under a
\* handler that raises RuntimeError
PlateDetectionServicer(files) ==
    IF ~files.car_model THEN [raises |-> "FileNotFoundError", value |-> NoServicer]
    ELSE IF ~files.model \/ files.dm_json # "present"
    THEN [raises |-> "ValueError", value |-> NoServicer]
    ELSE IF ~files.easyocr THEN [raises |-> "RuntimeError", value |-> NoServicer]
    ELSE [raises |-> "", value |-> [ocr_reader |-> TRUE, compiled_model |-> TRUE,
                                    class_id_to_name |-> class_map]]

\* CinExtractionServicer.__init__: _initialize_easyocr and _load_label_map
\* log their failure and return, _initialize_openvino_model re-raises
CinExtractionServicer(files) ==
    IF ~files.model THEN [raises |-> "FileNotFoundError", value |-> NoServicer]
    ELSE [raises |-> "", value |-> [ocr_reader |-> files.easyocr, compiled_model |-> TRUE,
                                    class_id_to_name |->
                                        IF files.dm_json = "present" THEN cin_label_map
                                        ELSE NoLabels]]

\* serve() of the plate service: the servicer is built first; a constructor
\* that raises ends the process with sys.exit, otherwise server.start()
SvcInit ==
    /\ variant = "service" /\ pc = "init"
    /\ LET servicer_instance == PlateDetectionServicer(call)
       IN  IF servicer_instance.raises = ""
           THEN /\ servicer' = servicer_instance.value
                /\ pc' = "decode"
                /\ UNCHANGED raised
           ELSE /\ raised' = Append(raised, <<"init", servicer_instance.raises>>)
                /\ pc' = "exited"
                /\ UNCHANGED servicer
    /\ UNCHANGED <<parked, call, cin_ocr_result_list,
                   variant, image_bgr, output_dets_car, best_plate_detection,
                   best_plate_crop, max_confidence_stage1, corrected_plate_crop, rotated,
                   output_dets_plate, overall_confidence, sorted_detections, ocr_i,
                   detections, extracted_texts, ocr_confidences, result, response, stages>>

\* serve() of the document service: a constructor that raises makes serve()
\* return, otherwise server.start()
CinInit ==
    /\ variant = "cin" /\ pc = "init"
    /\ LET servicer_instance == CinExtractionServicer(call)
       IN  IF servicer_instance.raises = ""
           THEN /\ servicer' = servicer_instance.value
                /\ pc' = "decode"
                /\ UNCHANGED raised
           ELSE /\ raised' = Append(raised, <<"init", servicer_instance.raises>>)
                /\ pc' = "exited"
                /\ UNCHANGED servicer
    /\ UNCHANGED <<parked, call, cin_ocr_result_list,
                   variant, image_bgr, output_dets_car, best_plate_detection,
                   best_plate_crop, max_confidence_stage1, corrected_plate_crop, rotated,
                   output_dets_plate, overall_confidence, sorted_detections, ocr_i,
                   detections, extracted_texts, ocr_confidences, result, response, stages>>

StartInit ==
    /\ variant \in {"service", "cin"}
    /\ servicer = NoServicer
    /\ pc = "init"
    /\ image_bgr = NoImage
    /\ output_dets_car = <<>>
    /\ best_plate_detection = <<0, 0, 0, 0>>
    /\ best_plate_crop = NoCrop
    /\ max_confidence_stage1 = 0
    /\ corrected_plate_crop = NoCrop
    /\ rotated = FALSE
    /\ output_dets_plate = <<>>
    /\ overall_confidence = Frac(0, 1)
    /\ sorted_detections = <<>>
    /\ ocr_i = 0
    /\ detections = <<>>
    /\ extracted_texts = [k \in CinNames |-> None]
    /\ ocr_confidences = [k \in CinNames |-> Frac(0, 1)]
    /\ cin_ocr_result_list = <<>>
    /\ result = NoResult
    /\ response = IF variant = "cin" THEN CinResponse ELSE NoResponse
    /\ stages = <<>>
    /\ raised = <<>>
    /\ parked = <<>>
    /\ call \in Deployments(variant)

StartNext ==
    \/ SvcInit
    \/ CinInit
    \/ SvcDecode
    \/ SvcLocalize
    \/ SvcRotate
    \/ SvcFields
    \/ SvcOcr
    \/ SvcAssemble
    \/ SvcRespond
    \/ CinDecode
    \/ CinFields
    \/ CinOcr
    \/ CinPopulate

StartSpec == StartInit /\ [][StartNext]_vars

----------------------------------------------------------------------------
(* Vocabulary of the properties *)

StartsWith(s, prefix) == Len(s) >= Len(prefix) /\ SubSeq(s, 1, Len(prefix)) = prefix
Ran(stage) == stage \in Range(stages)
RaisedAt(stage) == \E i \in 1..Len(raised) : raised[i][1] = stage

Patterns == {pattern_num_tun_num, pattern_num_tun, pattern_tun_num}
Sentinels == {OCR_CROP_FAIL, OCR_ERROR, NO_DIGITS}

\* a recognized text that is non-empty and not a failure sentinel
RecognizedValid(t) == t # None /\ t # <<>> /\ t \notin Sentinels

NumSlots(dets) == {i \in 1..Len(dets) : dets[i].class_name = "num"}
Matched(dets) == ClassSequence(dets) \in Patterns

\* the assembler has run and the invocation has ended
Assembled == pc = "done" /\ Ran("assemble")

----------------------------------------------------------------------------
(* C1 *)

\* C1: every invocation of DetectPlate and of ExtractCinData ends by
\* returning a structured response with a boolean success flag, whatever the
\* payload and whatever the collaborators do: no exception escapes to the
\* transport, and an invocation that has not yet returned can always take
\* its next step.
C1_AlwaysAnswers ==
    variant \in {"service", "cin"} =>
        /\ pc # "escaped"
        /\ pc # "done" => ENABLED Next
        /\ pc = "done" => /\ response.success \in BOOLEAN
                          /\ raised # <<>> /\ ~response.success
                                => response.error_message # EmptyMsg
        /\ pc = "done" /\ variant = "service" => stages[Len(stages)] = "respond"

\* a detector exception in stage 2 was absorbed into an unsuccessful response
C1_Witness ==
    /\ variant = "service" /\ pc = "done"
    /\ RaisedAt("fields")
    /\ ~response.success
    /\ response.error_message.fmt = "Internal server error during detection: {}"

----------------------------------------------------------------------------
(* C2 *)

\* C2: a plate response reports success only if the class-name sequence
\* matched a registered pattern, every 'num' slot holds a valid recognized
\* text, and the assembled plate string is non-empty.
C2_SuccessOnlyIfAssembled ==
    variant = "service" /\ pc = "done" /\ response.success =>
        /\ Matched(sorted_detections)
        /\ \A i \in NumSlots(sorted_detections) :
              RecognizedValid(sorted_detections[i].ocr_text)
        /\ response.plate_number # <<>>

\* a successful response for a num-tun-num plate
C2_Witness ==
    /\ variant = "service" /\ pc = "done" /\ response.success
    /\ ClassSequence(sorted_detections) = pattern_num_tun_num

----------------------------------------------------------------------------
(* C3 *)

\* the mean of the retained stage-2 confidences
MeanStage2 == Frac(SumConfidence(sorted_detections), Len(sorted_detections))

\* c = (max_confidence_stage1 + MeanStage2) / 2
IsMeanOfStageConfidences(c) ==
    2 * c.n * MeanStage2.d = (max_confidence_stage1 * MeanStage2.d + MeanStage2.n) * c.d

\* C3: for the sequence [num, tun, num] with both number slots validly
\* recognized the assembler succeeds with "<text1> TN <text2>", texts in
\* left-to-right order, and the service reports the mean of the two stage
\* confidences.
C3_NumTunNum ==
    (/\ variant \in {"service", "script"} /\ Assembled
     /\ ClassSequence(sorted_detections) = pattern_num_tun_num
     /\ RecognizedValid(sorted_detections[1].ocr_text)
     /\ RecognizedValid(sorted_detections[3].ocr_text))
    => /\ result.plate = sorted_detections[1].ocr_text \o <<" ", "T", "N", " ">>
                            \o sorted_detections[3].ocr_text
       /\ sorted_detections[1].x1 <= sorted_detections[3].x1
       /\ variant = "service" =>
             /\ response.success
             /\ response.plate_number = result.plate
             /\ IsMeanOfStageConfidences(response.confidence)

\* a num-tun-num plate whose two numbers differ was assembled by the service
C3_Witness ==
    /\ variant = "service" /\ Assembled /\ response.success
    /\ ClassSequence(sorted_detections) = pattern_num_tun_num
    /\ sorted_detections[1].ocr_text # sorted_detections[3].ocr_text
    /\ sorted_detections[1].confidence # sorted_detections[3].confidence

----------------------------------------------------------------------------
(* C4 *)

InvalidSlots(dets) == {i \in NumSlots(dets) : ~RecognizedValid(dets[i].ocr_text)}

\* the reason names exactly the failed slots
ReasonNamesFailedSlots(message, dets) ==
    IF ClassSequence(dets) = pattern_num_tun_num
    THEN /\ message.fmt = "OCR failed on {}"
         /\ Len(message.args) = 1
         /\ ("first number" \in Range(message.args[1])) <=> (1 \in InvalidSlots(dets))
         /\ ("second number" \in Range(message.args[1])) <=> (3 \in InvalidSlots(dets))
         /\ Range(message.args[1]) \subseteq {"first number", "second number"}
    ELSE message.fmt = "OCR failed on number part for RS-style plate"

\* the string is marked as a failure and carries the text of every number slot
IsPlaceholder(plate, dets) ==
    /\ \/ StartsWith(plate, StrOcrIncomplete)
       \/ StartsWith(plate, StrRsOcrError)
       \/ StartsWith(plate, StrOcrFailed)
    /\ \A i \in NumSlots(dets) : Contains(plate, dets[i].ocr_text)

\* C4: when a pattern matches but a required num slot is invalid (empty or a
\* failure sentinel) the assembler does not raise and returns an incomplete
\* result: a placeholder string carrying the available text with the
\* sentinel and, in the service, success=false with a reason naming exactly
\* the failed slots.
C4_IncompleteAssembly ==
    (/\ variant \in {"service", "script"} /\ Assembled
     /\ Matched(sorted_detections)
     /\ InvalidSlots(sorted_detections) # {})
    => /\ ~RaisedAt("assemble")
       /\ IsPlaceholder(result.plate, sorted_detections)
       /\ variant = "service" =>
             /\ ~response.success
             /\ ReasonNamesFailedSlots(response.error_message, sorted_detections)

\* the same statement for the service alone
C4_ServiceIncompleteAssembly ==
    variant = "service" => C4_IncompleteAssembly

\* the service returned an incomplete num-tun-num plate whose second number failed
C4_Witness ==
    /\ variant = "service" /\ Assembled
    /\ ClassSequence(sorted_detections) = pattern_num_tun_num
    /\ InvalidSlots(sorted_detections) = {3}

----------------------------------------------------------------------------
(* C5 *)

\* no recognized text appears in the string
NoTextSubstituted(plate, dets) ==
    \A i \in NumSlots(dets) :
        Truthy(dets[i].ocr_text) => ~Contains(plate, dets[i].ocr_text)

\* C5: when the assembler is given a class-name sequence that matches no
\* registered pattern, of any length, the outcome is PATTERN_UNRECOGNIZED:
\* the diagnostic embeds the observed sequence, no recognized text is
\* substituted, and the service reports success=false.  (The empty list is
\* the subject of C6 and is left out here.)
C5_UnrecognizedPattern ==
    (/\ variant \in {"service", "script"} /\ Assembled
     /\ sorted_detections # <<>>
     /\ ~Matched(sorted_detections))
    => /\ NoTextSubstituted(result.plate, sorted_detections)
       /\ IF variant = "service"
          THEN /\ ~response.success
               /\ response.error_message =
                      Msg("Unrecognized plate pattern: {}", <<ClassSequence(sorted_detections)>>)
          ELSE Contains(result.plate, Repr(ClassSequence(sorted_detections)))

\* the same statement for the service alone
C5_ServiceUnrecognizedPattern ==
    variant = "service" => C5_UnrecognizedPattern

\* the service met a sequence of three that matches no pattern
C5_Witness ==
    /\ variant = "service" /\ Assembled
    /\ Len(sorted_detections) = 3 /\ ~Matched(sorted_detections)

----------------------------------------------------------------------------
(* C6 *)

\* the assembler has been applied to the empty list
AssembledEmpty == sorted_detections = <<>> /\ Ran("assemble")

\* C6: given an empty list of retained stage-2 detections the sequence
\* assembler returns the PATTERN_UNRECOGNIZED outcome and raises nothing:
\* the service's stage 4 returns "Pattern Error" with the diagnostic
\* "Unrecognized plate pattern: []" and DetectPlate answers success=false;
\* platef's assembly block yields "No valid plate pattern detected".
C6_EmptyListUnrecognized ==
    AssembledEmpty =>
        /\ raised = <<>> /\ pc \in {"respond", "done"}
        /\ IF variant = "service"
           THEN /\ result.plate = StrPatternError
                /\ result.error_message = Msg("Unrecognized plate pattern: {}", << <<>> >>)
                /\ pc = "done" => ~response.success
           ELSE /\ result.plate = StrNoValidPattern
                /\ result.error_message = NoneMsg

\* DetectPlate answered for an empty list handed to stage 4
C6_Witness ==
    /\ variant = "service" /\ AssembledEmpty /\ pc = "done"
    /\ response.error_message.fmt = "Unrecognized plate pattern: {}"

----------------------------------------------------------------------------
(* C7 *)

LaterStages == {"rotate", "fields", "ocr", "assemble"}

\* C7: NO_REGION and NO_FIELDS are terminal.  When stage 1 retains nothing
\* the invocation ends unsuccessfully without an exception and without any
\* rotation, field detection, OCR or assembly step; when stage 2 retains
\* nothing it ends unsuccessfully without any OCR or assembly step.
C7_TerminalNoRegionNoFields ==
    /\ (/\ variant = "service" /\ Ran("localize") /\ pc # "localize"
        /\ ~RaisedAt("localize") /\ best_plate_crop.none
        /\ result.error_message.fmt # "Unexpected car model output shape: {}. Expected (1, N, 5).")
       => /\ pc \in {"respond", "done"}
          /\ Range(stages) \cap LaterStages = {}
          /\ raised = <<>>
          /\ result.error_message.fmt = "No plate detected with sufficient confidence in Stage 1."
          /\ pc = "done" => ~response.success
    /\ (/\ variant = "service" /\ Ran("fields") /\ pc # "fields"
        /\ ~RaisedAt("fields") /\ sorted_detections = <<>>)
       => /\ pc \in {"respond", "done"}
          /\ Range(stages) \cap {"ocr", "assemble"} = {}
          /\ pc = "done" => ~response.success
    /\ (/\ variant = "cin" /\ Ran("fields") /\ pc # "fields"
        /\ ~RaisedAt("fields") /\ detections = <<>>)
       => /\ pc \in {"populate", "done"}
          /\ ~Ran("ocr")
          /\ pc = "done" => /\ ~response.success
                            /\ response.error_message.fmt = "No relevant fields detected in the image."

\* the service answered NO_REGION to rows that were all rejected
C7_Witness ==
    /\ variant = "service" /\ pc = "done"
    /\ output_dets_car # <<>> /\ best_plate_crop.none
    /\ stages = <<"decode", "localize", "respond">>
    /\ ~response.success

----------------------------------------------------------------------------
(* C8, C9, C10: stage-1 selection *)

\* the stage-1 mapping of the running variant
MappedCar(box) ==
    IF variant = "service"
    THEN scale_coords_car(box, preprocess_image_car(image_bgr, CAR_INPUT_HEIGHT, CAR_INPUT_WIDTH))
    ELSE platef_map_car(box, platef_preprocess_image_car(image_bgr, CAR_INPUT_HEIGHT, CAR_INPUT_WIDTH))

\* the stage-1 confidence test of the running variant
PassesStage1(confidence) ==
    IF variant = "service" THEN PassesCarThreshold(confidence)
    ELSE platef_PassesCarThreshold(confidence)

NonDegenerate(b) == ~(b[1] >= b[3] \/ b[2] >= b[4])

\* the detector answered and its rows are still at hand
Stage1Answered ==
    variant \in {"service", "script"} /\ Ran("localize") /\ output_dets_car # <<>>

\* row i is the one kept
Kept(i) ==
    LET b == MappedCar(output_dets_car[i].box)
    IN  /\ best_plate_crop = Crop(b[1], b[2], b[3], b[4])
        /\ max_confidence_stage1 = output_dets_car[i].conf

\* i is the first row of maximum confidence within the candidate set
FirstMax(i, candidates) ==
    /\ i \in candidates
    /\ \A j \in candidates :
          \/ output_dets_car[j].conf < output_dets_car[i].conf
          \/ output_dets_car[j].conf = output_dets_car[i].conf /\ i <= j

\* C8: a detection whose mapped box is degenerate is discarded whatever its
\* confidence: neither filter emits such a box, and under best-single a
\* degenerate box never displaces or blocks a valid candidate of lower
\* confidence.
C8_DegenerateDiscarded ==
    /\ \A i \in 1..Len(sorted_detections) :
          sorted_detections[i].x1 < sorted_detections[i].x2
              /\ sorted_detections[i].y1 < sorted_detections[i].y2
    /\ ~best_plate_crop.none =>
          best_plate_crop.x1 < best_plate_crop.x2 /\ best_plate_crop.y1 < best_plate_crop.y2
    /\ Stage1Answered =>
          LET valid == {i \in 1..Len(output_dets_car) :
                           /\ output_dets_car[i].conf > CAR_CONFIDENCE_THRESHOLD
                           /\ NonDegenerate(MappedCar(output_dets_car[i].box))}
          IN  valid # {} => \E i \in valid : FirstMax(i, valid) /\ Kept(i)

\* the same statement for the service alone
C8_ServiceDegenerateDiscarded ==
    variant = "service" => C8_DegenerateDiscarded

\* C9 as stated: the detection kept is the first one of maximum confidence
\* among the detections that pass the threshold.
C9_KeptIsFirstMaxPassing ==
    Stage1Answered /\ pc = "rotate" =>
        LET passing == {i \in 1..Len(output_dets_car) :
                           PassesStage1(output_dets_car[i].conf)}
        IN  \E i \in passing : FirstMax(i, passing) /\ Kept(i)

\* C9 amended: the detection whose crop goes on to rotation correction is
\* the first one of maximum confidence among the detections that pass the
\* threshold and have a non-degenerate mapped box; it is a function of the
\* detection list.
C9_KeptIsFirstMaxPassingValid ==
    Stage1Answered /\ pc = "rotate" =>
        LET valid == {i \in 1..Len(output_dets_car) :
                         /\ PassesStage1(output_dets_car[i].conf)
                         /\ NonDegenerate(MappedCar(output_dets_car[i].box))}
        IN  \E i \in valid : FirstMax(i, valid) /\ Kept(i)

\* two valid rows tie on confidence and the first one was kept by the service
C9_Witness ==
    /\ variant = "service" /\ pc = "rotate" /\ Len(output_dets_car) = 2
    /\ output_dets_car[1].conf = output_dets_car[2].conf
    /\ output_dets_car[1].box # output_dets_car[2].box
    /\ PassesStage1(output_dets_car[1].conf)
    /\ Kept(1) /\ ~Kept(2)

\* the stage-2 mapping of the running variant
MappedPlate(box) ==
    LET meta == preprocess_image_plate(corrected_plate_crop,
                                       PLATE_TARGET_HEIGHT, PLATE_TARGET_WIDTH)
    IN  IF variant = "service" THEN scale_coords_plate(box, meta)
        ELSE platef_scale_coords(box, meta)

\* C10: at every stage of every variant the confidence test discards exactly
\* the detections below the stage threshold; a detection whose confidence
\* equals the threshold passes.
C10_ThresholdInclusive ==
    /\ Stage1Answered =>
          LET rows == output_dets_car
              atLeast == {i \in 1..Len(rows) : rows[i].conf >= CAR_CONFIDENCE_THRESHOLD}
          IN  /\ atLeast = {} => best_plate_crop.none
              /\ (/\ atLeast # {}
                  /\ \A i \in atLeast : NonDegenerate(MappedCar(rows[i].box)))
                 => \E i \in atLeast : FirstMax(i, atLeast) /\ Kept(i)
    /\ (/\ variant \in {"service", "script"} /\ Ran("fields")
        /\ output_dets_plate # <<>>)
       => LET rows == output_dets_plate
          IN  Len(sorted_detections) =
                 Cardinality({i \in 1..Len(rows) :
                                 /\ rows[i].conf >= PLATE_CONFIDENCE_THRESHOLD
                                 /\ ClassName(rows[i].label) \in {"num", "tun"}
                                 /\ NonDegenerate(MappedPlate(rows[i].box))})
    /\ (variant = "cin" /\ Ran("fields") /\ output_dets_plate # <<>>)
       => Len(detections) =
             Cardinality({i \in 1..Len(output_dets_plate) :
                             output_dets_plate[i].conf >= CONFIDENCE_THRESHOLD})

----------------------------------------------------------------------------
(* C11 *)

\* the stage-2 detector answered and its rows are still at hand
Stage2Answered ==
    variant \in {"service", "script"} /\ Ran("fields") /\ output_dets_plate # <<>>

\* the rows that pass the threshold, resolve to an allowed class name and map
\* to a non-degenerate box
Qualifying ==
    {i \in 1..Len(output_dets_plate) :
        /\ output_dets_plate[i].conf >= PLATE_CONFIDENCE_THRESHOLD
        /\ output_dets_plate[i].label \in DOMAIN class_map
        /\ class_map[output_dets_plate[i].label] \in {"num", "tun"}
        /\ NonDegenerate(MappedPlate(output_dets_plate[i].box))}

\* retained detection d is row i
IsRow(d, i) ==
    LET b == MappedPlate(output_dets_plate[i].box)
    IN  /\ <<d.x1, d.y1, d.x2, d.y2>> = b
        /\ d.class_name = class_map[output_dets_plate[i].label]
        /\ d.confidence = output_dets_plate[i].conf

RECURSIVE SumRows(_)
SumRows(I) ==
    IF I = {} THEN 0
    ELSE LET i == CHOOSE j \in I : TRUE
         IN  output_dets_plate[i].conf + SumRows(I \ {i})

\* C11: the detections retained by stage 2 are exactly the rows that pass the
\* threshold, resolve to a class name in {num, tun} and map to a
\* non-degenerate box; a row above the threshold with another class name
\* (a "Label_<id>" placeholder included) is not retained, is not in the
\* class-name sequence and does not enter the stage-2 mean confidence.
C11_RetainAllValid ==
    Stage2Answered =>
        /\ \E f \in [1..Len(sorted_detections) -> Qualifying] :
              /\ \A k, l \in 1..Len(sorted_detections) : f[k] = f[l] => k = l
              /\ \A k \in 1..Len(sorted_detections) : IsRow(sorted_detections[k], f[k])
        /\ Len(sorted_detections) = Cardinality(Qualifying)
        /\ \A k \in 1..Len(sorted_detections) :
              sorted_detections[k].class_name \in {"num", "tun"}
        /\ (variant = "service" /\ pc = "ocr") =>
              FracEq(overall_confidence,
                     Frac(max_confidence_stage1 * Cardinality(Qualifying) + SumRows(Qualifying),
                          2 * Cardinality(Qualifying)))

\* a row above the threshold with an unmapped class id was dropped while
\* another row was retained
C11_Witness ==
    /\ Stage2Answered /\ variant = "service" /\ pc = "ocr"
    /\ \E i \in 1..Len(output_dets_plate) :
          /\ output_dets_plate[i].conf >= PLATE_CONFIDENCE_THRESHOLD
          /\ output_dets_plate[i].label \notin DOMAIN class_map
    /\ Len(sorted_detections) = 2

----------------------------------------------------------------------------
(* C12 *)

\* the recognition engine raised on some field of this invocation
OcrEngineFailed == RaisedAt("ocr")

\* C12: an OCR failure on one field (crop failure or engine exception) is
\* not fatal in any variant: the field is marked with a sentinel, every
\* remaining field is still submitted to OCR, and the invocation goes on to
\* assembly / result construction with the texts of the other fields.
C12_OcrFailureNonFatal ==
    /\ OcrEngineFailed /\ pc = "done" =>
          IF variant = "cin"
          THEN /\ ocr_i = Len(detections) + 1
               /\ Ran("respond")
               /\ response.id_number = Get(extracted_texts, "id")
               /\ response.name = Get(extracted_texts, "name")
               /\ response.lastname = Get(extracted_texts, "lastname")
          ELSE /\ ocr_i = Len(sorted_detections) + 1
               /\ Ran("assemble")
               /\ \E k \in 1..Len(sorted_detections) :
                     sorted_detections[k].ocr_text = OCR_ERROR
               /\ \A k \in 1..Len(sorted_detections) :
                     sorted_detections[k].class_name = "num"
                         => sorted_detections[k].ocr_text # None
    /\ (variant \in {"service", "script"} /\ Ran("assemble")) =>
          \A k \in 1..Len(sorted_detections) :
             (/\ sorted_detections[k].class_name = "num"
              /\ OcrCropFails(sorted_detections[k], corrected_plate_crop))
             => sorted_detections[k].ocr_text = OCR_CROP_FAIL

\* the same statement for the plate pipelines alone
C12_PlateOcrFailureNonFatal ==
    variant \in {"service", "script"} => C12_OcrFailureNonFatal

----------------------------------------------------------------------------
(* C13 *)

----------------------------------------------------------------------------
(* C14 *)

\* C14: the rotation-correction stage never aborts the pipeline in any
\* variant: whatever happens inside it, the invocation proceeds to stage-2
\* normalization, and after an internal error the sub-region handed on is
\* the original one, unrotated.
C14_RotationNeverAborts ==
    (variant \in {"service", "script"} /\ Ran("rotate")) =>
        /\ pc = "fields" \/ Ran("fields")
        /\ ~corrected_plate_crop.none
        /\ RaisedAt("rotate") => corrected_plate_crop = best_plate_crop /\ ~rotated

\* the same statement for the service alone
C14_ServiceRotationNeverAborts ==
    variant = "service" => C14_RotationNeverAborts

----------------------------------------------------------------------------
(* C15 *)

CallReturned == pc = "returned" /\ call # NoCall

\* C15: every model-space to reference-space mapping of every variant,
\* given a scaling context whose scale is 0, returns the zero-area box
\* (0, 0, 0, 0) and does not raise.
C15_ZeroScaleGuarded ==
    (CallReturned /\ call.fn \in Mappers /\ call.scale.n = 0) =>
        call.ret.raises = "" /\ call.ret.value = <<0, 0, 0, 0>>

\* the same statement for the three mapping functions that test the scale
C15_GuardedMappers ==
    (call # NoCall /\ call.fn \notin {"platef.main", "ExtractCinData"}) => C15_ZeroScaleGuarded

----------------------------------------------------------------------------
(* C16 *)

\* the input has no rows or no columns, or its shorter side times the scale
\* (640 over the longer side) converts to 0: by truncation, or by rounding in
\* the stage-1 normalizer of the service
Collapses(fn, image) ==
    LET short == Min(image.h, image.w)
        long == Max(image.h, image.w)
    IN  \/ short <= 0
        \/ IF fn = "preprocess_image_car" THEN 2 * 640 * short <= long
           ELSE 640 * short < long

InvalidDimensionsErrors == {"ValueError: Invalid resized dimensions"}

\* C16: the image normalizer of every stage fails with an invalid-dimensions
\* error whenever the input height or width or a resized dimension is <= 0,
\* and never hands a non-positive size to the resize step.
C16_InvalidDimensionsRejected ==
    (CallReturned /\ call.fn \in Normalizers) =>
        /\ Collapses(call.fn, call.image) =>
              call.ret.raises \in InvalidDimensionsErrors /\ call.ret.resize = <<>>
        /\ call.ret.resize # <<>> => call.ret.resize[1] > 0 /\ call.ret.resize[2] > 0

----------------------------------------------------------------------------
(* C18 *)

Abs(x) == IF x < 0 THEN -x ELSE x

\* C18: a box inside the reference image, taken to model space by the
\* normalizer's scale and padding and back by the reference-space mapping,
\* comes back within 1 of itself in every coordinate.
C18_RoundTripWithinOne ==
    (CallReturned /\ call.fn = "round_trip") =>
        /\ call.ret.raises = ""
        /\ \A i \in 1..4 : Abs(call.ret.value[i] - call.box[i]) <= 1

----------------------------------------------------------------------------
(* C17 *)

\* serve() has built the servicer where only the class label map (and
\* possibly the OCR engine) is unusable
LabelMapAbsent ==
    /\ pc # "init" /\ call.dm_json # "present"
    /\ call.car_model /\ call.model

\* C17: without its class label map a service still initializes, starts
\* and answers requests, and the class ids of its detections resolve to
\* placeholder names.
C17_LabelMapAbsenceDegrades ==
    LabelMapAbsent =>
        /\ pc # "exited"
        /\ ~RaisedAt("init")
        /\ \A i \in 1..Len(detections) :
              detections[i].class_name = "unknown_id_" \o ToString(detections[i].label_id)

\* the same statement for the document service alone
C17_CinLabelMapAbsenceDegrades ==
    variant = "cin" => C17_LabelMapAbsenceDegrades

----------------------------------------------------------------------------
(* C19 *)

\* the service has answered the scenario: a 1920x1080 frame, a stage-1
\* detection of confidence 0.81 whose box maps to (102, 201, 501, 261) (the
\* scale of such a frame is 1/3 and the detector's coordinates are cut to
\* int, so every mapped coordinate is a multiple of 3: this is the nearest
\* box to (100, 200, 500, 260)), no rotation, a 'num' field at x in
\* [10, 60], a 'tun' field at x in [65, 90], and "1234" read in the number
Scenario ==
    /\ variant = "service" /\ Assembled
    /\ image_bgr = Image(1080, 1920)
    /\ max_confidence_stage1 = 81
    /\ best_plate_crop = Crop(102, 201, 501, 261)
    /\ ~rotated
    /\ Len(sorted_detections) = 2
    /\ sorted_detections[1].class_name = "num"
    /\ sorted_detections[1].x1 = 10 /\ sorted_detections[1].x2 = 60
    /\ sorted_detections[2].class_name = "tun"
    /\ sorted_detections[2].x1 = 65 /\ sorted_detections[2].x2 = 90
    /\ sorted_detections[1].confidence >= 54 /\ sorted_detections[2].confidence >= 54
    /\ sorted_detections[1].ocr_text = <<"1", "2", "3", "4">>

ScenarioPlate ==
    /\ response.success
    /\ response.plate_number = <<"R", "S", " ", "1", "2", "3", "4">>
    /\ response.error_message = EmptyMsg

\* C19 as stated: in the scenario the service returns "RS 1234", success,
\* and the confidence (0.81 + 0.90) / 2 = 0.855.
C19_ScenarioConfidence855 ==
    Scenario => ScenarioPlate /\ FracEq(response.confidence, Frac(171, 2))

\* C19: in the scenario the service returns "RS 1234", success, and the
\* mean of 0.81 and the mean confidence of the two retained stage-2
\* detections; the OCR engine's confidence is not part of it.
C19_ScenarioStageMean ==
    Scenario =>
        /\ ScenarioPlate
        /\ FracEq(response.confidence,
                  Frac(2 * 81 + sorted_detections[1].confidence
                              + sorted_detections[2].confidence, 4))

\* the scenario with stage-2 confidences 0.90 and 0.54
C19_Witness ==
    /\ Scenario
    /\ sorted_detections[1].confidence = 90 /\ sorted_detections[2].confidence = 54
    /\ FracEq(response.confidence, Frac(153, 2))

----------------------------------------------------------------------------
(* C20 *)

\* the stages of a plate pipeline in their order; localization includes the
\* crop, "fields" is stage-2 normalization and field detection, "respond"
\* is the result DetectPlate builds (the script prints instead)
StageOrder == <<"decode", "localize", "rotate", "fields", "ocr", "assemble", "respond">>

\* the place of a stage in the order
StageIndex(st) == CHOOSE i \in 1..Len(StageOrder) : StageOrder[i] = st

\* C20: within one plate-pipeline invocation the stages run in the fixed
\* order decode, localization and crop, rotation correction, stage-2
\* normalization and field detection, OCR, assembly, result: a stage starts
\* only after the stages before it, none runs twice, and the invocation
\* never stands again at a stage it has left (the OCR stage is left when
\* its loop over the fields ends).
C20_LinearStageOrder ==
    variant \in {"service", "script"} =>
        /\ Range(stages) \subseteq Range(StageOrder)
        /\ \A i, j \in 1..Len(stages) :
              i < j => StageIndex(stages[i]) < StageIndex(stages[j])
        /\ pc \in Range(StageOrder) =>
              \A i \in 1..Len(stages) :
                  \/ StageIndex(stages[i]) < StageIndex(pc)
                  \/ pc = "ocr" /\ i = Len(stages) /\ stages[i] = "ocr"
        /\ pc \in Range(StageOrder) \cup {"done"}

\* the service went through every stage
C20_Witness ==
    /\ variant = "service" /\ pc = "done"
    /\ stages = StageOrder
    /\ response.success

----------------------------------------------------------------------------
(* C21 *)

\* the string a matched layout is reported with when it is assembled
\* successfully: "<n> TN <n>" or "RS <n>", n the text of a number slot
SuccessForm(dets) ==
    IF ClassSequence(dets) = <<"num", "tun", "num">>
    THEN dets[1].ocr_text \o <<" ", "T", "N", " ">> \o dets[3].ocr_text
    ELSE <<"R", "S", " ">> \o dets[CHOOSE i \in NumSlots(dets) : TRUE].ocr_text

\* C21: in every plate variant a slot whose text is empty or one of the
\* sentinels "[OCR_CROP_FAIL]", "[OCR_ERROR]", "[NO_DIGITS]" is invalid for
\* the assembler: its text is never substituted into a string reported as a
\* successfully assembled plate.
C21_SentinelNeverAssembled ==
    (/\ variant \in {"service", "script"} /\ Assembled
     /\ Matched(sorted_detections)
     /\ InvalidSlots(sorted_detections) # {})
    => /\ result.plate # SuccessForm(sorted_detections)
       /\ variant = "service" => ~response.success

\* the same statement for the service alone
C21_ServiceSentinelNeverAssembled ==
    variant = "service" => C21_SentinelNeverAssembled

----------------------------------------------------------------------------
(* C22 *)

\* C22: for every input box and every scaling context with scale > 0 each
\* of the four coordinates a reference-space mapping returns lies in the
\* reference frame: 0 <= x <= original_width, 0 <= y <= original_height.
C22_AllCoordinatesClamped ==
    (CallReturned /\ call.fn \in Mappers /\ call.scale.n > 0) =>
        /\ call.ret.raises = ""
        /\ \A i \in {1, 3} : 0 <= call.ret.value[i] /\ call.ret.value[i] <= call.image.w
        /\ \A i \in {2, 4} : 0 <= call.ret.value[i] /\ call.ret.value[i] <= call.image.h

\* the same statement for platef's scale_coords, which clips both ends
C22_ScriptScaleCoordsClamped ==
    (call # NoCall /\ call.fn = "platef.scale_coords") => C22_AllCoordinatesClamped

----------------------------------------------------------------------------
(* C23 *)

\* C23: the service maps every stage-2 detection with the scaling context
\* of the rotation-corrected crop, so every retained stage-2 box lies in
\* the crop's own frame, 0 <= x1 < x2 <= crop width and 0 <= y1 < y2 <= crop
\* height, and the crop the OCR regions are cut from is the corrected crop,
\* which has the size of the stage-1 crop.
C23_Stage2BoxesInCropFrame ==
    (variant = "service" /\ sorted_detections # <<>>) =>
        /\ ~corrected_plate_crop.none
        /\ CropW(corrected_plate_crop) = CropW(best_plate_crop)
        /\ CropH(corrected_plate_crop) = CropH(best_plate_crop)
        /\ \A i \in 1..Len(sorted_detections) :
              LET d == sorted_detections[i]
              IN  /\ 0 <= d.x1 /\ d.x1 < d.x2 /\ d.x2 <= CropW(corrected_plate_crop)
                  /\ 0 <= d.y1 /\ d.y1 < d.y2 /\ d.y2 <= CropH(corrected_plate_crop)

\* three fields were retained in a crop that the corrector rotated
C23_Witness ==
    /\ variant = "service" /\ pc = "ocr"
    /\ rotated
    /\ Len(sorted_detections) = 3
    /\ CropW(corrected_plate_crop) < 640

----------------------------------------------------------------------------
(* C24 *)

RECURSIVE ConfTotal(_, _)
ConfTotal(dets, i) == IF i > Len(dets) THEN 0 ELSE dets[i].confidence + ConfTotal(dets, i + 1)

\* C24: whenever the plate service reaches assembly, matched or not, the
\* confidence it returns is the mean of the stage-1 confidence and the mean
\* confidence of exactly the retained stage-2 detections, whatever the OCR
\* answered, and it lies in [0, 1] (0 to 100 hundredths).
C24_ConfidenceIsStageMean ==
    (variant = "service" /\ Assembled) =>
        LET n == Len(sorted_detections)
            c == response.confidence
        IN  /\ n > 0
            /\ c.d > 0
            /\ 2 * n * c.n = (max_confidence_stage1 * n + ConfTotal(sorted_detections, 1)) * c.d
            /\ 0 <= c.n /\ c.n <= 100 * c.d
            /\ result.confidence = c

\* an unmatched sequence with an OCR failure, and stage-2 confidences that differ
C24_Witness ==
    /\ variant = "service" /\ Assembled
    /\ ~Matched(sorted_detections)
    /\ Len(sorted_detections) = 2
    /\ sorted_detections[1].confidence # sorted_detections[2].confidence
    /\ \E i \in 1..2 : sorted_detections[i].ocr_text = OCR_ERROR

----------------------------------------------------------------------------
(* C25 *)

\* C25: for every raw angle in [-90, 90] degrees the corrector's
\* normalization (below -45: plus 90; above 45: minus 90; otherwise
\* unchanged) gives an angle in [-45, 45], and the rotation is applied
\* exactly when the absolute value of that angle is at least 2.0 degrees
\* (angles in tenths of a degree).
C25_AngleNormalized ==
    (CallReturned /\ call.fn \in Correctors) =>
        LET normalized == call.ret.value[1]
            applied == call.ret.value[2] = 1
        IN  /\ call.ret.raises = ""
            /\ -450 <= normalized /\ normalized <= 450
            /\ call.angle < -450 => normalized = call.angle + 900
            /\ call.angle > 450 => normalized = call.angle - 900
            /\ (-450 <= call.angle /\ call.angle <= 450) => normalized = call.angle
            /\ applied <=> (normalized >= 20 \/ normalized <= -20)
            /\ applied <=> call.ret.resize # <<>>

\* a raw angle of 60.0 degrees became -30.0 and the crop was rotated
C25_Witness ==
    /\ CallReturned /\ call.fn = "detect_and_correct_rotation"
    /\ call.angle = 600
    /\ call.ret.value = <<-300, 1>>

----------------------------------------------------------------------------
(* C26 *)

\* a response of one of the two services has been built
Responded == variant \in {"service", "cin"} /\ pc = "done"

\* C26: in every response of both services success is true if and only if
\* error_message is empty; for DetectPlate the outcome is decided by the
\* returned error message alone, the conjuncts on plate_number never
\* change it.
C26_SuccessIffNoErrorMessage ==
    Responded =>
        /\ response.success <=> response.error_message.fmt = ""
        /\ variant = "service" =>
              /\ response.success <=> result.error_message = NoneMsg
              /\ result.error_message = NoneMsg =>
                    (result.plate # <<>> /\ ~Contains(result.plate, StrError))

\* both outcomes are produced by both services
C26_Witness ==
    /\ Responded /\ variant = "cin" /\ ~response.success
    /\ detections # <<>>
    /\ response.error_message.fmt =
          "No information could be extracted, or all fields were empty after OCR."

----------------------------------------------------------------------------
(* C27 *)

\* a stage of a request has run or is about to run
Serving == pc \notin {"init", "exited"}

\* C27: requests are served only after the servicer's initialization has
\* finished; the plate server never starts when a model, the metadata or
\* the OCR engine failed to initialize, so each of its stages runs with all
\* of them; the document server never starts without its model, and with
\* its OCR reader missing it answers success=false before decoding the
\* image or running inference.
C27_NoStageWithoutCollaborators ==
    /\ pc = "init" => (stages = <<>> /\ servicer = NoServicer)
    /\ pc = "exited" => (stages = <<>> /\ RaisedAt("init") /\ response.success = FALSE)
    /\ (variant = "service" /\ Serving) =>
          /\ call.car_model /\ call.model /\ call.dm_json = "present" /\ call.easyocr
          /\ servicer.ocr_reader /\ servicer.compiled_model
          /\ servicer.class_id_to_name # NoLabels
    /\ (variant = "service"
        /\ ~(call.car_model /\ call.model /\ call.dm_json = "present" /\ call.easyocr)) =>
          pc \in {"init", "exited"}
    /\ (variant = "cin" /\ Serving) => (call.model /\ servicer.compiled_model)
    /\ (variant = "cin" /\ ~call.model) => pc \in {"init", "exited"}
    /\ (variant = "cin" /\ Serving /\ ~(call.easyocr /\ servicer.ocr_reader)) =>
          /\ ~call.easyocr /\ ~servicer.ocr_reader
          /\ stages = <<>> /\ image_bgr = NoImage /\ detections = <<>>
          /\ pc \in {"decode", "done"}
          /\ pc = "done" => (~response.success /\ response.error_message.fmt # "")

\* the document service has answered a request without its OCR reader
C27_Witness ==
    /\ variant = "cin" /\ pc = "done" /\ ~servicer.ocr_reader
    /\ response.error_message = Msg("OCR reader is not initialized.", <<>>)

----------------------------------------------------------------------------
(* C28 *)

\* the three class names the response is populated from
FieldNames == {"id", "name", "lastname"}

\* ExtractCinData has answered
CinAnswered == variant = "cin" /\ pc = "done"

\* the request was ended by the OCR of a detection of another class name
EndedOnOtherClass ==
    /\ RaisedAt("ocr") /\ ocr_i \in 1..Len(detections)
    /\ detections[ocr_i].class_name \notin FieldNames

\* C28: ExtractCinData reports success=true if and only if one of
\* id_number, name, lastname is non-empty; detections of any other class
\* name never influence the success flag or the returned fields, so a
\* request that met no failure other than on such a detection returns the
\* texts read from the field detections; and with no field filled the error
\* is "no fields detected" exactly when no detection passed the threshold.
C28_OnlyFieldDetectionsCount ==
    CinAnswered =>
        /\ response.success <=>
              (response.id_number # <<>> \/ response.name # <<>> \/ response.lastname # <<>>)
        /\ (raised = <<>> \/ EndedOnOtherClass) =>
              /\ response.id_number = Get(extracted_texts, "id")
              /\ response.name = Get(extracted_texts, "name")
              /\ response.lastname = Get(extracted_texts, "lastname")
        /\ (Ran("respond") /\ ~response.success) =>
              response.error_message =
                  IF detections = <<>>
                  THEN Msg("No relevant fields detected in the image.", <<>>)
                  ELSE Msg("No information could be extracted, or all fields were empty after OCR.", <<>>)

----------------------------------------------------------------------------
(* C29 *)

\* the texts of a token list in order, a space after each
RECURSIVE TokenTexts(_, _)
TokenTexts(tokens, i) ==
    IF i > Len(tokens) THEN <<>> ELSE tokens[i].text \o <<" ">> \o TokenTexts(tokens, i + 1)

RECURSIVE TokenTotal(_, _)
TokenTotal(tokens, i) ==
    IF i > Len(tokens) THEN 0 ELSE tokens[i].conf + TokenTotal(tokens, i + 1)

\* one pass of the OCR loop of ExtractCinData that went on to the next
\* detection: only the entry of the detection's own class name may change;
\* with a valid box and at least one token it becomes the text and the mean
\* token confidence of this detection, whatever was stored before and
\* whatever the detection confidences are; otherwise it stays
OcrPassStoresOwnTokens ==
    (variant = "cin" /\ pc = "ocr" /\ pc' # "done") =>
        LET det == detections[ocr_i]
            f == det.class_name
            b == det.box_orig
            t == cin_ocr_result_list'
        IN  /\ \A k \in (DOMAIN extracted_texts) \ {f} :
                  /\ extracted_texts'[k] = extracted_texts[k]
                  /\ ocr_confidences'[k] = ocr_confidences[k]
            /\ IF b[1] < b[3] /\ b[2] < b[4] /\ t # <<>>
               THEN /\ extracted_texts'[f] = Strip(TokenTexts(t, 1))
                    /\ ocr_confidences'[f].d = Len(t)
                    /\ ocr_confidences'[f].n = TokenTotal(t, 1)
               ELSE /\ extracted_texts'[f] = extracted_texts[f]
                    /\ ocr_confidences'[f] = ocr_confidences[f]

\* the populated response returns what the loop stored last
ReturnsStored ==
    (CinAnswered /\ Ran("respond")) =>
        /\ response.id_number = Get(extracted_texts, "id")
        /\ response.name = Get(extracted_texts, "name")
        /\ response.lastname = Get(extracted_texts, "lastname")
        /\ response.confidence_id = ocr_confidences["id"]
        /\ response.confidence_name = ocr_confidences["name"]
        /\ response.confidence_lastname = ocr_confidences["lastname"]

\* C29: in a response populated by ExtractCinData, the text and confidence
\* of a field are those of the last detection of that field name, in
\* detector output order, whose box is valid and whose OCR returned at
\* least one token, not those of the detection of highest confidence; a
\* detection whose OCR returns no token leaves the stored value unchanged;
\* the stored confidence is the mean of the token confidences of the
\* detection that supplied the text.
C29_LastReadDetectionWins == [][OcrPassStoresOwnTokens]_vars /\ []ReturnsStored

\* two 'id' detections, the second of lower confidence: the response
\* carries the text and the mean token confidence (0.80 and 0.40) of the
\* second
C29_Witness ==
    /\ CinAnswered /\ Ran("respond")
    /\ Len(detections) = 2
    /\ detections[1].class_name = "id" /\ detections[2].class_name = "id"
    /\ detections[1].confidence > detections[2].confidence
    /\ cin_ocr_result_list = <<Token(<<"7">>, 80), Token(<<>>, 40)>>
    /\ response.id_number = <<"7">>
    /\ response.confidence_id = Frac(120, 2)

----------------------------------------------------------------------------
(* C30 *)

\* the OCR loop of the plate service has gone past field i
OcrPassed(i) == pc \in {"assemble", "respond", "done"} \/ (pc = "ocr" /\ i < ocr_i)

DigitText(s) == s # <<>> /\ \A k \in 1..Len(s) : s[k] \in {"0", "1", "2", "3", "4", "5", "6", "7", "8", "9"}

\* C30: in the plate service the crop-failure sentinel is unreachable: the
\* OCR region of every retained stage-2 box, expanded by the margin of 2 and
\* clamped to the corrected crop, is non-empty, so no detection is assigned
\* "[OCR_CROP_FAIL]"; every 'num' detection ends the OCR stage with digit
\* text, "[NO_DIGITS]" or "[OCR_ERROR]", and every 'tun' detection keeps
\* ocr_text = None.
C30_CropFailUnreachable ==
    variant = "service" =>
        \A i \in 1..Len(sorted_detections) :
            LET det == sorted_detections[i]
                w == corrected_plate_crop.x2 - corrected_plate_crop.x1
                h == corrected_plate_crop.y2 - corrected_plate_crop.y1
            IN  /\ det.ocr_text # <<"[", "O", "C", "R", "_", "C", "R", "O", "P", "_", "F", "A", "I", "L", "]">>
                /\ (IF det.x1 - 2 > 0 THEN det.x1 - 2 ELSE 0) < (IF det.x2 + 2 < w THEN det.x2 + 2 ELSE w)
                /\ (IF det.y1 - 2 > 0 THEN det.y1 - 2 ELSE 0) < (IF det.y2 + 2 < h THEN det.y2 + 2 ELSE h)
                /\ det.class_name = "tun" => det.ocr_text = None
                /\ (det.class_name = "num" /\ OcrPassed(i)) =>
                      \/ DigitText(det.ocr_text)
                      \/ det.ocr_text = NO_DIGITS
                      \/ det.ocr_text = OCR_ERROR
                /\ (det.class_name = "num" /\ ~OcrPassed(i)) => det.ocr_text = None

\* the OCR stage is over for a 'num' field three pixels wide in the top
\* right corner of a rotated crop and for a 'tun' field
C30_Witness ==
    /\ variant = "service" /\ pc = "assemble" /\ rotated
    /\ \E i \in 1..Len(sorted_detections) :
          /\ sorted_detections[i].class_name = "num"
          /\ sorted_detections[i].y1 = 0
          /\ sorted_detections[i].x2 = corrected_plate_crop.x2 - corrected_plate_crop.x1
          /\ sorted_detections[i].x2 - sorted_detections[i].x1 = 3
          /\ DigitText(sorted_detections[i].ocr_text)
    /\ \E i \in 1..Len(sorted_detections) : sorted_detections[i].class_name = "tun"

====
